---------------------------- MODULE Spec2Model ----------------------------
(***************************************************************************)
(* A model of yoyo_to_anki.py: the paginated fetcher, the record mapper,   *)
(* the row formatters, the export orchestrator (main) and the concurrent   *)
(* audio downloader with its temporary-file-then-rename protocol.          *)
(*                                                                         *)
(* Strings are tuples of tokens (concatenation is \o); an Optional value   *)
(* is a tuple of length 0 (None) or 1 (a present value).                   *)
(***************************************************************************)
EXTENDS Integers, Sequences, FiniteSets, TLC

VARIABLES
    scn,          \* which harness drives the code: "fetch", "main", "lists", "dl",
                  \* "batch", "same", "scen"
    \* ---- fetch_all_flashcards (one call at a time)
    max_cards,    \* Optional[int], the --max argument
    fstate,       \* "idle", "running", "returned", "raised"
    flevel,       \* the level index the running call serves (0: the single fetch)
    page,         \* the 1-based page counter
    f_cards,      \* the accumulator `cards` of fetch_all_flashcards
    total,        \* Optional[int], the first reported total
    requested,    \* history: the page numbers requested by the current call
    hist,         \* history: per answered request, the records and the reported total
    budget,       \* records the server may still serve (bounds the model)
    \* ---- the download stage of main and http_download
    dstage,       \* "idle", "running" (inside the executor block), "done"
    unique_pairs, \* the dispatched task list: (url, dest) pairs
    audio_workers,\* the --audio-workers argument
    next_task,    \* index of the next queued task a pool thread will take
    tk,           \* per task: where its _download_pair call stands
    names,        \* per task: the numbers of its url, its dest and its tmp path
    fs_path,      \* the file system: path -> inode (0: no such file)
    fs_data,      \* the file system: inode -> content, a tuple of chunks
    net,          \* per task, how its url behaves: "ok", "down", "flaky"
    outcome,      \* per task: "none" or the status its future returned
    pending,      \* results of finished futures that main has not processed yet
    ok, cached, failed, processed,   \* the counters of main
    warnings,     \* the urls main printed a WARN line for
    net_reqs,     \* history: urlopen calls per task in this run
    fs_errors,    \* history: attempts that failed in os.replace
    pre,          \* history: the content of every path when the run began
    run,          \* 1, or 2 when the stage runs again over the same list
    prev_outcome, \* history: the outcomes of run 1
    \* ---- main
    args,         \* the parsed command line
    mstage,       \* "idle", "fetch", "render", "download", "exit": where main stands
    exit_status,  \* Optional[int], the exit status once the process has ended
    cards,        \* every fetched card, in fetch order
    cards_by_level, \* level mode: the cards of level 1, 2, ...
    audio_to_download, \* the (url, dest) pairs registered while rendering
    tsv_files,    \* the tabular files written: path and content, in write order
    package,      \* Optional: the packaged deck written
    \* ---- a function of the program called on its own
    fn_in,        \* the arguments of the call
    fn_out        \* <<>> before the call, then what the call gave

fetchVars == <<max_cards, fstate, flevel, page, f_cards, total, requested, hist, budget>>

poolConf == <<dstage, unique_pairs, audio_workers, net, names>>
poolVars == <<poolConf, next_task, tk>>
fsVars == <<fs_path, fs_data>>
countVars == <<ok, cached, failed, processed, warnings>>
dlHist == <<net_reqs, fs_errors, pre, run, prev_outcome>>
dlVars == <<poolVars, fsVars, outcome, pending, countVars, dlHist>>

mainVars == <<args, mstage, exit_status, cards, cards_by_level, audio_to_download,
              tsv_files, package>>

fnVars == <<fn_in, fn_out>>

vars == <<scn, fetchVars, dlVars, mainVars, fnVars>>

-----------------------------------------------------------------------------
(* Bounds of the model *)
MaxPages == 3        \* page requests per fetch call
MaxPageLen == 2      \* records on a server page (besides the full default page)
MaxTotal == 3        \* the largest total the server reports
MaxCap == 3          \* the largest --max value tried
MaxTasks == 2        \* download tasks in the download-stage harness
MaxWorkers == 2      \* the largest --audio-workers value tried
MaxChunks == 1       \* chunks in a response body
MaxRecords == 2      \* records the server serves in a whole run of main
MaxLevels == 2       \* levels of the course in level mode
MaxListLen == 3      \* pairs in a registered list given to the deduplication

(* Program constants *)
PerPageDefault == 50
DefaultRetries == 4

-----------------------------------------------------------------------------
(* Optional values and Python helpers *)
None == <<>>
Some(x) == <<x>>
IsNone(o) == Len(o) = 0
Val(o) == o[1]

Min(a, b) == IF a <= b THEN a ELSE b
Max(a, b) == IF a >= b THEN a ELSE b

\* Python's s[:m] for a list: a negative m counts from the end
SliceTo(s, m) ==
    IF m >= 0 THEN SubSeq(s, 1, Min(m, Len(s)))
    ELSE SubSeq(s, 1, Max(0, Len(s) + m))

\* x or "" for an Optional[str]
OrEmpty(o) == IF IsNone(o) \/ Val(o) = <<>> THEN <<>> ELSE Val(o)

IsSpace(t) == t \in {" ", "\t", "\n"}

RECURSIVE LStrip(_)
LStrip(s) == IF s # <<>> /\ IsSpace(Head(s)) THEN LStrip(Tail(s)) ELSE s

RECURSIVE RStrip(_)
RStrip(s) ==
    IF s # <<>> /\ IsSpace(s[Len(s)]) THEN RStrip(SubSeq(s, 1, Len(s) - 1)) ELSE s

\* str.strip()
Strip(s) == RStrip(LStrip(s))

-----------------------------------------------------------------------------
(* The remote card API: raw records *)

\* The shapes of record the modelled server issues.
RawKinds == <<
    [wordType |-> Some(2), normal |-> Some(<<"a">>), slow |-> Some(<<"b">>),
     english2 |-> None],
    [wordType |-> Some(3), normal |-> Some(<<"a">>), slow |-> None,
     english2 |-> Some(<<"e2">>)],
    [wordType |-> None,    normal |-> Some(<<"b">>), slow |-> Some(<<"a">>),
     english2 |-> Some(<<>>)],
    [wordType |-> Some(0), normal |-> Some(<<>>),    slow |-> None,
     english2 |-> None] >>

\* The record at position idx of page pg of level lvl; ids are unique.
RawRecord(kind, lvl, pg, idx) ==
    LET tok == ToString(lvl * 10000 + pg * 100 + idx)
        k == RawKinds[kind] IN
    [id |-> Some(<<tok>>),
     code |-> Some(<<"k", tok>>),
     masteryLevel |-> None,
     wordType |-> k.wordType,
     content |-> Some(
                 [simplified |-> Some(<<" ", "s", tok>>),
                  traditional |-> Some(<<"t", tok>>),
                  pinyin |-> Some(<<"p", tok>>),
                  english1 |-> Some(<<"e1">>),
                  english2 |-> k.english2,
                  normal |-> k.normal,
                  slow |-> k.slow])]

\* A JSON object is a function from the keys it holds to values; a value is
\* None (null) or present. dict.get(key) and dict.get(key, default):
Get(obj, key) == IF key \in DOMAIN obj THEN obj[key] ELSE None
GetOr(obj, key, default) == IF key \in DOMAIN obj THEN obj[key] ELSE default
EmptyDict == <<>>

\* c = obj.get("content", {}): null when the key is there with a null value,
\* and then c.get raises AttributeError
from_api_raises(obj) == IsNone(GetOr(obj, "content", Some(EmptyDict)))

from_api_NoStrip(obj) ==
    LET c == Val(GetOr(obj, "content", Some(EmptyDict))) IN
    [id |-> IF OrEmpty(Get(obj, "id")) # <<>> THEN OrEmpty(Get(obj, "id"))
            ELSE OrEmpty(Get(obj, "_id")),
     code |-> OrEmpty(Get(obj, "code")),
     masteryLevel |-> Get(obj, "masteryLevel"),
     wordType |-> Get(obj, "wordType"),
     simplified |-> OrEmpty(Get(c, "simplified")),
     traditional |-> OrEmpty(Get(c, "traditional")),
     pinyin |-> OrEmpty(Get(c, "pinyin")),
     english1 |-> OrEmpty(Get(c, "english1")),
     english2 |-> OrEmpty(Get(c, "english2")),
     audio_code_normal |-> Get(c, "normal"),
     audio_code_slow |-> Get(c, "slow")]

\* Flashcard.from_api, where it returns
from_api(obj) ==
    LET c == Val(GetOr(obj, "content", Some(EmptyDict))) IN
    [id |-> IF OrEmpty(Get(obj, "id")) # <<>> THEN OrEmpty(Get(obj, "id"))
            ELSE OrEmpty(Get(obj, "_id")),
     code |-> OrEmpty(Get(obj, "code")),
     masteryLevel |-> Get(obj, "masteryLevel"),
     wordType |-> Get(obj, "wordType"),
     simplified |-> Strip(OrEmpty(Get(c, "simplified"))),
     traditional |-> Strip(OrEmpty(Get(c, "traditional"))),
     pinyin |-> Strip(OrEmpty(Get(c, "pinyin"))),
     english1 |-> Strip(OrEmpty(Get(c, "english1"))),
     english2 |-> Strip(OrEmpty(Get(c, "english2"))),
     audio_code_normal |-> Get(c, "normal"),
     audio_code_slow |-> Get(c, "slow")]

-----------------------------------------------------------------------------
(* fetch_all_flashcards *)

\* What the server may answer in the harness at hand.
PageLens ==
    IF scn = "fetch" THEN (0..MaxPageLen) \cup {PerPageDefault}
    ELSE 0..Min(MaxPageLen, budget)
Totals == IF scn = "fetch" THEN {None} \cup {Some(t) : t \in 0..MaxTotal} ELSE {None, Some(1)}
Kinds == IF scn = "fetch" THEN {1} ELSE 1..Len(RawKinds)

StopReason_NoEmptyTest(n_cards, n_batch, tot, mc) ==
    IF ~IsNone(mc) /\ n_cards >= Val(mc) THEN "cap"
    ELSE IF ~IsNone(tot) /\ n_cards >= Val(tot) THEN "total"
    ELSE "go"

StopReason_NoTotalTest(n_cards, n_batch, tot, mc) ==
    IF ~IsNone(mc) /\ n_cards >= Val(mc) THEN "cap"
    ELSE IF n_batch = 0 THEN "empty"
    ELSE "go"

\* The three stop tests after a page, in the order the loop makes them:
\* "cap", "empty", "total", or "go" when the loop continues.
StopReason(n_cards, n_batch, tot, mc) ==
    IF ~IsNone(mc) /\ n_cards >= Val(mc) THEN "cap"
    ELSE IF n_batch = 0 THEN "empty"
    ELSE IF ~IsNone(tot) /\ n_cards >= Val(tot) THEN "total"
    ELSE "go"

\* One iteration of the while loop whose request succeeds: the server answers
\* page `page` with the records `recs` and reports `t`.
FetchPage(recs, t) ==
    /\ fstate = "running"
    /\ page <= MaxPages
    /\ LET batch == [i \in 1..Len(recs) |-> from_api(recs[i])]
           all == f_cards \o batch
           tot == IF IsNone(total) THEN t ELSE total
           why == StopReason(Len(all), Len(batch), tot, max_cards) IN
       /\ requested' = Append(requested, page)
       /\ hist' = Append(hist, [recs |-> recs, t |-> t])
       /\ total' = tot
       /\ budget' = IF scn = "fetch" THEN budget ELSE budget - Len(recs)
       /\ IF why = "cap"
          THEN /\ f_cards' = SliceTo(all, Val(max_cards))
               /\ fstate' = "returned"
               /\ page' = page
          ELSE IF why \in {"empty", "total"}
          THEN /\ f_cards' = all
               /\ fstate' = "returned"
               /\ page' = page
          ELSE /\ f_cards' = all
               /\ fstate' = "running"
               /\ page' = page + 1
    /\ UNCHANGED <<scn, fnVars, mainVars, max_cards, flevel, dlVars>>

\* The server's choice of an answer.
FetchPageOk ==
    \E n \in PageLens, t \in Totals, kind \in Kinds :
        FetchPage([i \in 1..n |-> RawRecord(kind, flevel, page, i)], t)

\* http_post_json raises (transport error or non-2xx): the call raises too,
\* and its accumulator is lost with its frame.
FetchPageFail ==
    /\ fstate = "running"
    /\ page <= MaxPages
    /\ requested' = Append(requested, page)
    /\ fstate' = "raised"
    /\ f_cards' = <<>>
    /\ UNCHANGED <<scn, fnVars, mainVars, max_cards, flevel, page, total, hist, budget, dlVars>>

-----------------------------------------------------------------------------
(* The download stage: tasks, the file system, http_download *)

CDN_AUDIO_BASE == <<"https://cdn.yoyochinese.com/audio/practice/">>
media_dir == <<"export/media">>

\* os.path.join(dir, fn) for a relative file name
path_join(dir, fn) == dir \o <<"/">> \o fn

\* the (url, dest) pair main registers for an audio file name
audio_pair(audio_fn) == <<CDN_AUDIO_BASE \o audio_fn, path_join(media_dir, audio_fn)>>

tmp_path_is_dest(dest_path) == dest_path

\* tmp_path = dest_path + ".part"
tmp_path(dest_path) == dest_path \o <<".part">>

retries == DefaultRetries

\* Names are resolved once per run: equal paths get equal path numbers and
\* equal urls equal url numbers, the number of the first place they occur.
PathList(pairs) ==
    [i \in 1..(2 * Len(pairs)) |->
        IF i % 2 = 1 THEN pairs[(i + 1) \div 2][2] ELSE tmp_path(pairs[i \div 2][2])]
PathNo(pairs, p) ==
    CHOOSE i \in 1..(2 * Len(pairs)) :
        /\ PathList(pairs)[i] = p
        /\ \A j \in 1..(i - 1) : PathList(pairs)[j] # p
UrlNo(pairs, u) ==
    CHOOSE i \in 1..Len(pairs) :
        /\ pairs[i][1] = u
        /\ \A j \in 1..(i - 1) : pairs[j][1] # u
Resolve(pairs) ==
    [t \in 1..Len(pairs) |->
        [url |-> UrlNo(pairs, pairs[t][1]),
         dest |-> PathNo(pairs, pairs[t][2]),
         tmp |-> PathNo(pairs, tmp_path(pairs[t][2]))]]

Tasks == 1..Len(unique_pairs)
url_of(t) == names[t].url
dest_of(t) == names[t].dest
tmp_of(t) == names[t].tmp
Paths == DOMAIN fs_path
Dests == {dest_of(t) : t \in Tasks}

Exists(p) == fs_path[p] # 0
Data(p) == fs_data[fs_path[p]]
\* the content of a path as an Optional: None when there is no such file
Content(p) == IF Exists(p) THEN Some(Data(p)) ELSE None

InFlight(t) == tk[t].pc \notin {"queued", "finished"}

\* the tasks that work on the files of task t
Sharing(t) == {u \in Tasks : dest_of(u) = dest_of(t)}
\* an inode is in use while a path names it or an open file refers to it
InUseIn(fp, tkk, t, i) ==
    \/ fp[dest_of(t)] = i
    \/ fp[tmp_of(t)] = i
    \/ \E u \in Sharing(t) : tkk[u].fd = i
\* the inodes the files of task t draw on
InodesOf(t) == UNION {{3 * u - 2, 3 * u - 1, 3 * u} : u \in Sharing(t)}
FreeInode(t) ==
    CHOOSE i \in InodesOf(t) :
        /\ ~InUseIn(fs_path, tk, t, i)
        /\ \A j \in InodesOf(t) : j < i => InUseIn(fs_path, tk, t, j)
\* the content of an inode nothing refers to any more is gone
Release(fd, fp, tkk, t, i) ==
    IF i # 0 /\ ~InUseIn(fp, tkk, t, i) THEN [fd EXCEPT ![i] = <<>>] ELSE fd

Hole == <<0, 0, 0>>
\* write(2) of one chunk at chunk offset off of a file
WriteAt(data, off, chunk) ==
    IF off < Len(data) THEN [data EXCEPT ![off + 1] = chunk]
    ELSE data \o [i \in 1..(off - Len(data)) |-> Hole] \o <<chunk>>

\* chunk k of a response body of n chunks served for url number u
Chunk(u, n, k) == <<u, n, k>>
Body(u, n) == [k \in 1..n |-> Chunk(u, n, k)]

Queued == [pc |-> "queued", attempt |-> 0, fd |-> 0, off |-> 0, len |-> 0]
Finished == [pc |-> "finished", attempt |-> 0, fd |-> 0, off |-> 0, len |-> 0]
At(pc, attempt) == [pc |-> pc, attempt |-> attempt, fd |-> 0, off |-> 0, len |-> 0]

NoPending == [downloaded |-> 0, cached |-> 0, failed |-> {}]
AddPending(pd, t, status) ==
    IF status = "failed" THEN [pd EXCEPT !.failed = @ \cup {t}]
    ELSE IF status = "cached" THEN [pd EXCEPT !.cached = @ + 1]
    ELSE [pd EXCEPT !.downloaded = @ + 1]

\* What a response body may be, and whether a request can fail or succeed.
BodyLens == IF scn \in {"dl", "batch"} THEN 0..MaxChunks ELSE {1}
CanRaise(t) == net[t] # "ok"
CanComplete(t) == net[t] # "down"

\* A pool thread takes the next queued task: at most max(1, workers) calls of
\* _download_pair run at any time.
TakeTask ==
    /\ dstage = "running"
    /\ next_task \in Tasks
    /\ Cardinality({t \in Tasks : InFlight(t)}) < Max(1, audio_workers)
    /\ tk' = [tk EXCEPT ![next_task] = At("check", 0)]
    /\ next_task' = next_task + 1
    /\ UNCHANGED <<scn, fnVars, mainVars, fetchVars, poolConf, fsVars, outcome, pending, countVars, dlHist>>

\* _download_pair returns (status, pair, err): the future of task t is done.
Return(t, status) ==
    /\ outcome' = [outcome EXCEPT ![t] = status]
    /\ pending' = AddPending(pending, t, status)

download_pair_NoSkip(t) ==
    /\ tk[t].pc = "check"
    /\ tk' = [tk EXCEPT ![t] = At("rm_stale", 1)]
    /\ UNCHANGED <<outcome, pending>>
    /\ UNCHANGED <<scn, fnVars, mainVars, fetchVars, poolConf, next_task, fsVars, countVars, dlHist>>

\* _download_pair: the skip-if-present test, else into http_download
download_pair(t) ==
    /\ tk[t].pc = "check"
    /\ IF Exists(dest_of(t)) /\ Len(Data(dest_of(t))) > 0
       THEN /\ tk' = [tk EXCEPT ![t] = Finished]
            /\ Return(t, "cached")
       ELSE /\ tk' = [tk EXCEPT ![t] = At("rm_stale", 1)]
            /\ UNCHANGED <<outcome, pending>>
    /\ UNCHANGED <<scn, fnVars, mainVars, fetchVars, poolConf, next_task, fsVars, countVars, dlHist>>

\* http_download, top of an attempt: remove any previous partial file
RemoveStale(t) ==
    /\ tk[t].pc = "rm_stale"
    /\ LET np == [fs_path EXCEPT ![tmp_of(t)] = 0]
           ntk == [tk EXCEPT ![t].pc = "open"] IN
       /\ tk' = ntk
       /\ fs_path' = np
       /\ fs_data' = Release(fs_data, np, ntk, t, fs_path[tmp_of(t)])
    /\ UNCHANGED <<scn, fnVars, mainVars, fetchVars, poolConf, next_task, outcome, pending, countVars, dlHist>>

\* urlopen(req) and open(tmp_path, "wb"): the request fails, or the response
\* (a body of n chunks) is there and the temporary file is created or truncated
OpenResponse(t) ==
    /\ tk[t].pc = "open"
    /\ net_reqs' = [net_reqs EXCEPT ![t] = @ + 1]
    /\ \/ /\ CanRaise(t)
          /\ tk' = [tk EXCEPT ![t].pc = "cleanup"]
          /\ UNCHANGED fsVars
       \/ \E n \in BodyLens :
            LET ino == IF Exists(tmp_of(t)) THEN fs_path[tmp_of(t)] ELSE FreeInode(t) IN
            /\ tk' = [tk EXCEPT ![t] = [pc |-> "read", attempt |-> tk[t].attempt,
                                        fd |-> ino, off |-> 0, len |-> n]]
            /\ fs_path' = [fs_path EXCEPT ![tmp_of(t)] = ino]
            /\ fs_data' = [fs_data EXCEPT ![ino] = <<>>]
    /\ UNCHANGED <<scn, fnVars, mainVars, fetchVars, poolConf, next_task, outcome, pending, countVars,
                   fs_errors, pre, run, prev_outcome>>

\* one turn of the read loop: resp.read raises, or returns the next chunk,
\* which is written, or returns nothing and the with block closes the file
ReadChunk(t) ==
    /\ tk[t].pc = "read"
    /\ \/ /\ CanRaise(t)
          /\ LET ntk == [tk EXCEPT ![t] = At("cleanup", tk[t].attempt)] IN
             /\ tk' = ntk
             /\ fs_data' = Release(fs_data, fs_path, ntk, t, tk[t].fd)
       \/ /\ tk[t].off < tk[t].len
          /\ tk' = [tk EXCEPT ![t].off = @ + 1]
          /\ fs_data' = [fs_data EXCEPT ![tk[t].fd] =
                            WriteAt(@, tk[t].off, Chunk(url_of(t), tk[t].len, tk[t].off + 1))]
       \/ /\ tk[t].off = tk[t].len
          /\ CanComplete(t)
          /\ LET ntk == [tk EXCEPT ![t] = At("replace", tk[t].attempt)] IN
             /\ tk' = ntk
             /\ fs_data' = Release(fs_data, fs_path, ntk, t, tk[t].fd)
    /\ UNCHANGED <<scn, fnVars, mainVars, fetchVars, poolConf, next_task, fs_path, outcome, pending,
                   countVars, dlHist>>

\* os.replace(tmp_path, dest_path), then return; FileNotFoundError when the
\* temporary path names no file
Replace(t) ==
    /\ tk[t].pc = "replace"
    /\ IF Exists(tmp_of(t))
       THEN LET np == IF tmp_of(t) = dest_of(t) THEN fs_path
                      ELSE [fs_path EXCEPT ![dest_of(t)] = fs_path[tmp_of(t)],
                                           ![tmp_of(t)] = 0]
                ntk == [tk EXCEPT ![t] = Finished] IN
            /\ tk' = ntk
            /\ fs_path' = np
            /\ fs_data' = Release(fs_data, np, ntk, t, fs_path[dest_of(t)])
            /\ Return(t, "downloaded")
            /\ UNCHANGED fs_errors
       ELSE /\ tk' = [tk EXCEPT ![t].pc = "cleanup"]
            /\ fs_errors' = fs_errors + 1
            /\ UNCHANGED <<fsVars, outcome, pending>>
    /\ UNCHANGED <<scn, fnVars, mainVars, fetchVars, poolConf, next_task, countVars,
                   net_reqs, pre, run, prev_outcome>>

Cleanup_KeepsPart(t) ==
    /\ tk[t].pc = "cleanup"
    /\ IF tk[t].attempt >= retries \/ tk[t].attempt >= Max(1, retries)
       THEN /\ tk' = [tk EXCEPT ![t] = Finished]
            /\ Return(t, "failed")
       ELSE /\ tk' = [tk EXCEPT ![t] = At("rm_stale", tk[t].attempt + 1)]
            /\ UNCHANGED <<outcome, pending>>
    /\ UNCHANGED <<scn, fnVars, mainVars, fetchVars, poolConf, next_task, fsVars, countVars, dlHist>>

\* the except branch of an attempt: delete the temporary file if present, then
\* sleep and retry, or after the last attempt raise, which _download_pair
\* turns into the status "failed"
Cleanup(t) ==
    /\ tk[t].pc = "cleanup"
    /\ LET np == [fs_path EXCEPT ![tmp_of(t)] = 0]
           last == tk[t].attempt >= retries \/ tk[t].attempt >= Max(1, retries)
           ntk == IF last THEN [tk EXCEPT ![t] = Finished]
                  ELSE [tk EXCEPT ![t] = At("rm_stale", tk[t].attempt + 1)] IN
       /\ tk' = ntk
       /\ fs_path' = np
       /\ fs_data' = Release(fs_data, np, ntk, t, fs_path[tmp_of(t)])
       /\ IF last THEN Return(t, "failed") ELSE UNCHANGED <<outcome, pending>>
    /\ UNCHANGED <<scn, fnVars, mainVars, fetchVars, poolConf, next_task, countVars, dlHist>>

\* The results as_completed may hand to main next.
PendingResults ==
    (IF pending.downloaded > 0 THEN {[status |-> "downloaded", task |-> 0]} ELSE {})
    \cup (IF pending.cached > 0 THEN {[status |-> "cached", task |-> 0]} ELSE {})
    \cup {[status |-> "failed", task |-> t] : t \in pending.failed}

Collect_FailureEndsLoop ==
    /\ dstage = "running"
    /\ \E r \in PendingResults :
        /\ processed' = processed + 1
        /\ IF r.status = "downloaded"
           THEN /\ ok' = ok + 1
                /\ pending' = [pending EXCEPT !.downloaded = @ - 1]
                /\ UNCHANGED <<cached, failed, warnings, dstage>>
           ELSE IF r.status = "cached"
           THEN /\ ok' = ok + 1
                /\ cached' = cached + 1
                /\ pending' = [pending EXCEPT !.cached = @ - 1]
                /\ UNCHANGED <<failed, warnings, dstage>>
           ELSE /\ dstage' = "done"
                /\ pending' = [pending EXCEPT !.failed = @ \ {r.task}]
                /\ UNCHANGED <<ok, cached, failed, warnings>>
    /\ UNCHANGED <<scn, fnVars, mainVars, fetchVars, unique_pairs, audio_workers, net, names, next_task, tk,
                   fsVars, outcome, dlHist>>

Collect_CachedApart ==
    /\ dstage = "running"
    /\ \E r \in PendingResults :
        /\ processed' = processed + 1
        /\ IF r.status = "downloaded"
           THEN /\ ok' = ok + 1
                /\ pending' = [pending EXCEPT !.downloaded = @ - 1]
                /\ UNCHANGED <<cached, failed, warnings>>
           ELSE IF r.status = "cached"
           THEN /\ cached' = cached + 1
                /\ pending' = [pending EXCEPT !.cached = @ - 1]
                /\ UNCHANGED <<ok, failed, warnings>>
           ELSE /\ failed' = failed + 1
                /\ warnings' = Append(warnings, unique_pairs[r.task][1])
                /\ pending' = [pending EXCEPT !.failed = @ \ {r.task}]
                /\ UNCHANGED <<ok, cached>>
    /\ UNCHANGED <<scn, fnVars, mainVars, fetchVars, poolConf, next_task, tk, fsVars, outcome, dlHist>>

\* main, one turn of the as_completed loop: count the result under the lock
Collect ==
    /\ dstage = "running"
    /\ \E r \in PendingResults :
        /\ processed' = processed + 1
        /\ IF r.status = "downloaded"
           THEN /\ ok' = ok + 1
                /\ pending' = [pending EXCEPT !.downloaded = @ - 1]
                /\ UNCHANGED <<cached, failed, warnings>>
           ELSE IF r.status = "cached"
           THEN /\ ok' = ok + 1
                /\ cached' = cached + 1
                /\ pending' = [pending EXCEPT !.cached = @ - 1]
                /\ UNCHANGED <<failed, warnings>>
           ELSE /\ failed' = failed + 1
                /\ warnings' = Append(warnings, unique_pairs[r.task][1])
                /\ pending' = [pending EXCEPT !.failed = @ \ {r.task}]
                /\ UNCHANGED <<ok, cached>>
    /\ UNCHANGED <<scn, fnVars, mainVars, fetchVars, poolConf, next_task, tk, fsVars, outcome, dlHist>>

\* main leaves the executor block: every future was handed over
PoolExit ==
    /\ dstage = "running"
    /\ processed = Len(unique_pairs)
    /\ dstage' = "done"
    /\ UNCHANGED <<scn, fnVars, mainVars, fetchVars, unique_pairs, audio_workers, net, names, next_task, tk,
                   fsVars, outcome, pending, countVars, dlHist>>

\* A step of some running _download_pair call.
WorkerStep ==
    \E t \in Tasks :
        \/ download_pair(t)
        \/ RemoveStale(t)
        \/ OpenResponse(t)
        \/ ReadChunk(t)
        \/ Replace(t)
        \/ Cleanup(t)

-----------------------------------------------------------------------------
(* The state of the download stage as it starts *)

\* What a destination and its temporary sibling may hold before a run.
DiskStates == [dest : {"absent", "empty", "old"}, tmp : {"absent", "stale"}]
OldData == <<Chunk(0, 1, 1)>>
StaleData == <<Chunk(0, 2, 1)>>

\* the path table and the inode table for the disk states `disk` (per task):
\* the file at the destination of task t is inode 3t-2, at its temporary
\* path inode 3t-1
InitialPaths(pairs, disk) ==
    [p \in {Resolve(pairs)[t].dest : t \in 1..Len(pairs)}
           \cup {Resolve(pairs)[t].tmp : t \in 1..Len(pairs)} |->
        LET t == (p + 1) \div 2 IN
        IF p % 2 = 1
        THEN (IF disk[t].dest = "absent" THEN 0 ELSE 3 * t - 2)
        ELSE (IF disk[t].tmp = "absent" THEN 0 ELSE 3 * t - 1)]
InitialData(pairs, disk) ==
    LET fp == InitialPaths(pairs, disk) IN
    [i \in 1..(3 * Len(pairs)) |->
        LET t == (i + 2) \div 3 IN
        IF \A p \in DOMAIN fp : fp[p] # i THEN <<>>
        ELSE IF i = 3 * t - 2 THEN (IF disk[t].dest = "old" THEN OldData ELSE <<>>)
        ELSE StaleData]
ContentsOf(fp, fd) == [p \in DOMAIN fp |-> IF fp[p] = 0 THEN None ELSE Some(fd[fp[p]])]

\* no download stage yet
DownloadIdle ==
    /\ dstage = "idle"
    /\ unique_pairs = <<>>
    /\ audio_workers = 1
    /\ names = <<>>
    /\ next_task = 1
    /\ tk = <<>>
    /\ fs_path = <<>>
    /\ fs_data = <<>>
    /\ net = <<>>
    /\ outcome = <<>>
    /\ pending = NoPending
    /\ ok = 0 /\ cached = 0 /\ failed = 0 /\ processed = 0
    /\ warnings = <<>>
    /\ net_reqs = <<>>
    /\ fs_errors = 0
    /\ pre = <<>>
    /\ run = 1
    /\ prev_outcome = <<>>

\* the stage about to run over `pairs` with `workers` threads
DownloadReady(pairs, workers, disk, netw) ==
    /\ dstage = "running"
    /\ unique_pairs = pairs
    /\ audio_workers = workers
    /\ names = Resolve(pairs)
    /\ next_task = 1
    /\ tk = [t \in 1..Len(pairs) |-> Queued]
    /\ fs_path = InitialPaths(pairs, disk)
    /\ fs_data = InitialData(pairs, disk)
    /\ net = netw
    /\ outcome = [t \in 1..Len(pairs) |-> "none"]
    /\ pending = NoPending
    /\ ok = 0 /\ cached = 0 /\ failed = 0 /\ processed = 0
    /\ warnings = <<>>
    /\ net_reqs = [t \in 1..Len(pairs) |-> 0]
    /\ fs_errors = 0
    /\ pre = ContentsOf(InitialPaths(pairs, disk), InitialData(pairs, disk))
    /\ run = 1
    /\ prev_outcome = [t \in 1..Len(pairs) |-> "none"]

\* The program is run again: the stage runs over the same list, on the disk
\* the first run left.
Rerun ==
    /\ dstage = "done"
    /\ run = 1
    /\ run' = 2
    /\ dstage' = "running"
    /\ prev_outcome' = outcome
    /\ pre' = ContentsOf(fs_path, fs_data)
    /\ next_task' = 1
    /\ tk' = [t \in Tasks |-> Queued]
    /\ outcome' = [t \in Tasks |-> "none"]
    /\ pending' = NoPending
    /\ ok' = 0 /\ cached' = 0 /\ failed' = 0 /\ processed' = 0
    /\ warnings' = <<>>
    /\ net_reqs' = [t \in Tasks |-> 0]
    /\ fs_errors' = 0
    /\ UNCHANGED <<scn, fnVars, mainVars, fetchVars, unique_pairs, audio_workers, net, names, fsVars>>

\* main is not running
NoArgs ==
    [using_levels |-> FALSE, split_by_wordtype |-> FALSE, format |-> "simple",
     include_audio |-> FALSE, audio_speed |-> "normal", audio_workers |-> 1,
     make_apkg |-> FALSE, genanki |-> FALSE, levels |-> 0]
\* no function is called on its own
FnIdle == fn_in = <<>> /\ fn_out = <<>>

\* main is not running
MainOff ==
    /\ args = NoArgs
    /\ mstage = "idle"
    /\ exit_status = None
    /\ cards = <<>>
    /\ cards_by_level = <<>>
    /\ audio_to_download = <<>>
    /\ tsv_files = <<>>
    /\ package = None

MainIdle == FnIdle /\ MainOff

\* no fetch call is running
FetchOff ==
    /\ max_cards = None
    /\ fstate = "idle"
    /\ flevel = 0
    /\ page = 1
    /\ f_cards = <<>>
    /\ total = None
    /\ requested = <<>>
    /\ hist = <<>>
    /\ budget = 0

FetchIdle == MainIdle /\ FetchOff

\* the audio file names of the first n of the codes a, b, c, ...
Codes == <<"a", "b", "c", "d", "e", "f", "g", "h", "i", "j", "k">>
PairsFor(n) == [t \in 1..n |-> audio_pair(<<Codes[t], ".mp3">>)]

(* The download stage on its own: any small task list with distinct pairs,   *)
(* any disk, any worker count, unreliable network, and a second run.         *)
InitDL ==
    /\ scn = "dl"
    /\ FetchIdle
    /\ \E n \in 1..MaxTasks, w \in 1..MaxWorkers :
       \E disk \in [1..n -> DiskStates] :
          DownloadReady(PairsFor(n), w, disk, [t \in 1..n |-> "flaky"])

NextDL == TakeTask \/ WorkerStep \/ Collect \/ PoolExit \/ Rerun

SpecDL == InitDL /\ [][NextDL]_vars

(* The batch as one run. Small task lists on a directory that is fresh or  *)
(* holds some of the files, where each url answers, fails every attempt or  *)
(* does either; and the run of ten tasks on three workers into a fresh      *)
(* directory in which the url of task 4 fails every attempt and every other *)
(* url answers.                                                             *)
Scenario == [tasks |-> 10, workers |-> 3, failing |-> {4}]

InitScen ==
    /\ scn = "scen"
    /\ FetchIdle
    /\ DownloadReady(PairsFor(Scenario.tasks), Scenario.workers,
                     [t \in 1..Scenario.tasks |-> [dest |-> "absent", tmp |-> "absent"]],
                     [t \in 1..Scenario.tasks |->
                         IF t \in Scenario.failing THEN "down" ELSE "ok"])

InitSmall ==
    /\ scn = "batch"
    /\ FetchIdle
    /\ \E n \in 1..MaxTasks, w \in 0..MaxWorkers :
       \E disk \in [1..n -> [dest : {"absent", "old"}, tmp : {"absent"}]],
          netw \in [1..n -> {"ok", "down", "flaky"}] :
          DownloadReady(PairsFor(n), w, disk, netw)

InitBatch == InitSmall \/ InitScen

\* In the run of ten tasks main takes each result as soon as it is there;
\* the small runs leave results waiting for any length of time.
MainIsPrompt == scn = "scen" => PendingResults = {}

NextBatch ==
    \/ Collect
    \/ PoolExit
    \/ (MainIsPrompt /\ TakeTask)
    \/ (MainIsPrompt /\ WorkerStep)

SpecBatch == InitBatch /\ [][NextBatch]_vars

\* Pool threads run, every request returns or times out, and main is
\* scheduled: a step that stays possible is eventually taken.
FairSpecBatch == SpecBatch /\ WF_vars(NextBatch)

(* Two tasks for one destination, as a task list that was not deduplicated *)
(* gives: two workers, a network that answers every request.                *)
InitSame ==
    /\ scn = "same"
    /\ FetchIdle
    /\ \E d \in DiskStates :
          DownloadReady(<<PairsFor(1)[1], PairsFor(1)[1]>>, 2, [t \in 1..2 |-> d],
                        [t \in 1..2 |-> "ok"])

NextSame == TakeTask \/ WorkerStep \/ Collect \/ PoolExit

SpecSame == InitSame /\ [][NextSame]_vars

-----------------------------------------------------------------------------
(* The fetcher on its own *)

Caps == {None} \cup {Some(m) : m \in (-1)..MaxCap}

InitFetch ==
    /\ scn = "fetch"
    /\ max_cards \in Caps
    /\ fstate = "running"
    /\ flevel = 0
    /\ page = 1
    /\ f_cards = <<>>
    /\ total = None
    /\ requested = <<>>
    /\ hist = <<>>
    /\ budget = 0
    /\ MainIdle
    /\ DownloadIdle

NextFetch == FetchPageOk \/ FetchPageFail

SpecFetch == InitFetch /\ [][NextFetch]_vars

\* every request returns or raises: the loop is never left waiting
FairSpecFetch == SpecFetch /\ WF_vars(NextFetch)

-----------------------------------------------------------------------------
(* Rows: audio_filename, to_simple_fields, to_rich_fields, the TSV writers *)

RECURSIVE Flatten(_)
\* the concatenation of a sequence of sequences
Flatten(ss) == IF ss = <<>> THEN <<>> ELSE Head(ss) \o Flatten(Tail(ss))

audio_filename_AnySpeed(card, speed) ==
    IF IsNone(card.audio_code_normal) \/ Val(card.audio_code_normal) = <<>> THEN None
    ELSE Some(Val(card.audio_code_normal) \o <<".mp3">>)

\* Flashcard.audio_filename
audio_filename(card, speed) ==
    LET code == IF speed = "normal" THEN card.audio_code_normal
                ELSE IF speed = "slow" THEN card.audio_code_slow
                ELSE None IN
    IF IsNone(code) \/ Val(code) = <<>> THEN None
    ELSE Some(Val(code) \o <<".mp3">>)

\* the token for the dash (U+2014) between pinyin and gloss
EmDash == "U+2014"

\* english1, or "english1 | english2" when english2 is not empty
Gloss(card) ==
    IF card.english2 # <<>> THEN card.english1 \o <<" ", "|", " ">> \o card.english2
    ELSE card.english1

to_simple_fields_AlwaysDash(card, include_audio, speed) ==
    LET audio_fn == audio_filename(card, speed)
        front == IF include_audio /\ ~IsNone(audio_fn)
                 THEN card.simplified \o <<" ", "[sound:">> \o Val(audio_fn) \o <<"]">>
                 ELSE card.simplified
        back == card.pinyin \o <<" ", EmDash, " ">> \o Gloss(card) IN
    [front |-> front, back |-> back, audio_fn |-> audio_fn]

to_simple_fields(card, include_audio, speed) ==
    LET audio_fn == audio_filename(card, speed)
        front == IF include_audio /\ ~IsNone(audio_fn)
                 THEN card.simplified \o <<" ", "[sound:">> \o Val(audio_fn) \o <<"]">>
                 ELSE card.simplified
        back == IF card.pinyin # <<>> THEN card.pinyin \o <<" ", EmDash, " ">> \o Gloss(card)
                ELSE Gloss(card) IN
    [front |-> front, back |-> back, audio_fn |-> audio_fn]

word_type_label_OrWord(word_type) ==
    IF ~IsNone(word_type) /\ Val(word_type) = 3 THEN "Sentence" ELSE "Word"

word_type_label(word_type) ==
    IF ~IsNone(word_type) /\ Val(word_type) = 2 THEN "Word"
    ELSE IF ~IsNone(word_type) /\ Val(word_type) = 3 THEN "Sentence"
    ELSE ""

to_rich_fields_NoFile(card, include_audio, speed) ==
    LET label == word_type_label(card.wordType) IN
    [fields |-> <<card.simplified, card.pinyin, Gloss(card), card.traditional,
                  <<>>, card.code, IF label = "" THEN <<>> ELSE <<label>> >>,
     audio_fn |-> None]

to_rich_fields(card, include_audio, speed) ==
    LET audio_fn == IF include_audio THEN audio_filename(card, speed) ELSE None
        audio_field == IF ~IsNone(audio_fn) THEN <<"[sound:">> \o Val(audio_fn) \o <<"]">>
                       ELSE <<>>
        label == word_type_label(card.wordType) IN
    [fields |-> <<card.simplified, card.pinyin, Gloss(card), card.traditional,
                  audio_field, card.code, IF label = "" THEN <<>> ELSE <<label>> >>,
     audio_fn |-> audio_fn]

\* x.replace("\t", " ")
ReplaceTab(x) == [i \in 1..Len(x) |-> IF x[i] = "\t" THEN " " ELSE x[i]]

RECURSIVE JoinTab(_)
\* "\t".join(fields)
JoinTab(fields) ==
    IF fields = <<>> THEN <<>>
    ELSE IF Len(fields) = 1 THEN fields[1]
    ELSE fields[1] \o <<"\t">> \o JoinTab(Tail(fields))

\* the content write_tsv_simple gives the file
write_tsv_simple(rows) ==
    Flatten([i \in 1..Len(rows) |->
        ReplaceTab(rows[i][1]) \o <<"\t">> \o ReplaceTab(rows[i][2]) \o <<"\n">>])

\* the content write_tsv_rich gives the file
write_tsv_rich(rows) ==
    Flatten([i \in 1..Len(rows) |->
        JoinTab([j \in 1..Len(rows[i]) |-> ReplaceTab(rows[i][j])]) \o <<"\n">>])

-----------------------------------------------------------------------------
(* main *)

out_dir == <<"export">>
deck_name == <<"YoyoChinese">>

\* the row _accumulate_card (or the split branch) appends for a card
RowOf(card) ==
    IF args.format = "simple"
    THEN LET r == to_simple_fields(card, args.include_audio, args.audio_speed) IN
         <<r.front, r.back>>
    ELSE to_rich_fields(card, args.include_audio, args.audio_speed).fields

\* the pairs it appends to audio_to_download for a card: none or one
AudioOf(card) ==
    LET audio_fn == IF args.format = "simple"
                    THEN to_simple_fields(card, args.include_audio, args.audio_speed).audio_fn
                    ELSE to_rich_fields(card, args.include_audio, args.audio_speed).audio_fn IN
    IF args.include_audio /\ ~IsNone(audio_fn) THEN <<audio_pair(Val(audio_fn))>> ELSE <<>>

RowsOf_Reversed(cs) == [i \in 1..Len(cs) |-> RowOf(cs[Len(cs) + 1 - i])]
RowsOf(cs) == [i \in 1..Len(cs) |-> RowOf(cs[i])]

\* the cards the split branch puts into the bucket `label`
CardsOfType(cs, label) ==
    LET Has(c) == word_type_label(c.wordType) = label IN SelectSeq(cs, Has)
\* the cards that go to the accumulator for all cards
CardsForAll(cs) ==
    LET Rest(c) == ~(args.split_by_wordtype
                     /\ word_type_label(c.wordType) \in {"Word", "Sentence"})
    IN SelectSeq(cs, Rest)

WriteTsv(rows) ==
    IF args.format = "simple" THEN write_tsv_simple(rows) ELSE write_tsv_rich(rows)

\* open(path, "w") and the writes: the file is created or replaced
WriteFile(files, path, content) ==
    IF \E i \in 1..Len(files) : files[i].path = path
    THEN [i \in 1..Len(files) |->
            IF files[i].path = path THEN [path |-> path, content |-> content]
            ELSE files[i]]
    ELSE Append(files, [path |-> path, content |-> content])

LevelTsv(idx) ==
    path_join(out_dir, deck_name \o <<".level", ToString(idx), ".", args.format, ".tsv">>)
TypeTsv(key) ==
    path_join(out_dir, deck_name \o <<".", IF key = "Word" THEN "word" ELSE "sentence",
                                     ".", args.format, ".tsv">>)
AllTsv == path_join(out_dir, deck_name \o <<".", args.format, ".tsv">>)

RECURSIVE WriteLevels(_, _)
\* the loop over sorted(tsv_*_by_level.items()), from level idx on
WriteLevels(files, idx) ==
    IF idx > Len(cards_by_level) THEN files
    ELSE IF cards_by_level[idx] = <<>> THEN WriteLevels(files, idx + 1)
    ELSE WriteLevels(WriteFile(files, LevelTsv(idx), WriteTsv(RowsOf(cards_by_level[idx]))),
                     idx + 1)

RECURSIVE WriteTypes(_, _)
\* the loop over tsv_*_by_type.items(): "Word", then "Sentence"
WriteTypes(files, keys) ==
    IF keys = <<>> THEN files
    ELSE IF CardsOfType(cards, Head(keys)) = <<>> THEN WriteTypes(files, Tail(keys))
    ELSE WriteTypes(WriteFile(files, TypeTsv(Head(keys)),
                              WriteTsv(RowsOf(CardsOfType(cards, Head(keys))))),
                    Tail(keys))

\* dict.fromkeys over the list so far: x is a key already or becomes the last
AddKey(keys, x) ==
    IF \E i \in 1..Len(keys) : keys[i] = x THEN keys ELSE Append(keys, x)
Dedupe_None(n, pairs) == SubSeq(pairs, 1, n)
RECURSIVE Dedupe(_, _)
\* list(dict.fromkeys(pairs[:n]))
Dedupe(n, pairs) == IF n = 0 THEN <<>> ELSE AddKey(Dedupe(n - 1, pairs), pairs[n])

\* The command lines tried and the course they name.
MainArgs ==
    [using_levels : BOOLEAN, split_by_wordtype : BOOLEAN, format : {"simple", "rich"},
     include_audio : BOOLEAN, audio_speed : {"normal", "slow"}, audio_workers : {1, MaxWorkers},
     make_apkg : BOOLEAN, genanki : {TRUE}, levels : {MaxLevels}]

\* main calls fetch_all_flashcards for level lvl (0: the one call without levels)
CallFetch(lvl) ==
    /\ fstate' = "running"
    /\ flevel' = lvl
    /\ page' = 1
    /\ f_cards' = <<>>
    /\ total' = None
    /\ requested' = <<>>
    /\ hist' = <<>>

\* fetch_all_flashcards returned: main keeps the cards, and in level mode
\* goes on to the next level
MainFetchReturned ==
    /\ mstage = "fetch"
    /\ fstate = "returned"
    /\ cards' = cards \o f_cards
    /\ IF args.using_levels
       THEN /\ cards_by_level' = Append(cards_by_level, f_cards)
            /\ IF flevel < args.levels
               THEN CallFetch(flevel + 1) /\ UNCHANGED mstage
               ELSE /\ mstage' = "render"
                    /\ fstate' = "idle"
                    /\ UNCHANGED <<flevel, page, f_cards, total, requested, hist>>
       ELSE /\ mstage' = "render"
            /\ fstate' = "idle"
            /\ UNCHANGED <<cards_by_level, flevel, page, f_cards, total, requested, hist>>
    /\ UNCHANGED <<scn, fnVars, max_cards, budget, dlVars, args, exit_status, audio_to_download,
                   tsv_files, package>>

MainFetchFailed_GoesOn ==
    /\ mstage = "fetch"
    /\ fstate = "raised"
    /\ mstage' = "render"
    /\ UNCHANGED <<scn, fnVars, fetchVars, dlVars, args, exit_status, cards, cards_by_level,
                   audio_to_download, tsv_files, package>>

\* the except branches around the fetch calls: report and sys.exit(3)
MainFetchFailed ==
    /\ mstage = "fetch"
    /\ fstate = "raised"
    /\ mstage' = "exit"
    /\ exit_status' = Some(3)
    /\ UNCHANGED <<scn, fnVars, fetchVars, dlVars, args, cards, cards_by_level,
                   audio_to_download, tsv_files, package>>

\* Rows are rendered into the buckets, the pairs are registered, and the
\* tabular files are written.
Render ==
    /\ mstage = "render"
    /\ audio_to_download' =
          IF args.using_levels
          THEN Flatten([l \in 1..Len(cards_by_level) |->
                   Flatten([i \in 1..Len(cards_by_level[l]) |-> AudioOf(cards_by_level[l][i])])])
          ELSE Flatten([i \in 1..Len(cards) |-> AudioOf(cards[i])])
    /\ tsv_files' =
          IF args.using_levels THEN WriteLevels(tsv_files, 1)
          ELSE IF args.split_by_wordtype THEN WriteTypes(tsv_files, <<"Word", "Sentence">>)
          ELSE WriteFile(tsv_files, AllTsv, WriteTsv(RowsOf(CardsForAll(cards))))
    /\ mstage' = "download"
    /\ UNCHANGED <<scn, fnVars, fetchVars, dlVars, args, exit_status, cards, cards_by_level, package>>

WantsDownloads == args.include_audio /\ audio_to_download # <<>>

\* what the media directory holds and how the CDN answers when the stage
\* begins: a fresh directory and a CDN that answers, or, for the runs that
\* end in a package, any of them
StartDisks(n) ==
    IF scn = "pack" THEN [1..n -> {d \in DiskStates : d.tmp = "absent"}]
    ELSE {[t \in 1..n |-> [dest |-> "absent", tmp |-> "absent"]]}
StartNets(n) ==
    IF scn = "pack" THEN [1..n -> {"ok", "down"}] ELSE {[t \in 1..n |-> "ok"]}

\* The download stage begins: the list is deduplicated and every pair is
\* submitted to the pool.
StartDownloads ==
    /\ mstage = "download"
    /\ dstage = "idle"
    /\ WantsDownloads
    /\ LET pairs == Dedupe(Len(audio_to_download), audio_to_download)
           n == Len(pairs) IN
       \E disk \in StartDisks(n), netw \in StartNets(n) :
           /\ dstage' = "running"
           /\ unique_pairs' = pairs
           /\ audio_workers' = args.audio_workers
           /\ names' = Resolve(pairs)
           /\ next_task' = 1
           /\ tk' = [t \in 1..n |-> Queued]
           /\ fs_path' = InitialPaths(pairs, disk)
           /\ fs_data' = InitialData(pairs, disk)
           /\ net' = netw
           /\ outcome' = [t \in 1..n |-> "none"]
           /\ net_reqs' = [t \in 1..n |-> 0]
           /\ pre' = ContentsOf(InitialPaths(pairs, disk), InitialData(pairs, disk))
           /\ prev_outcome' = [t \in 1..n |-> "none"]
    /\ UNCHANGED <<scn, fnVars, fetchVars, mainVars, pending, countVars, fs_errors, run>>

\* os.path.exists(media_path) for the destination of a registered pair
MediaExists(path) ==
    \E t \in Tasks : unique_pairs[t][2] = path /\ Exists(dest_of(t))

\* the note built for a card
NoteOf(card) ==
    LET audio_fn == IF args.include_audio THEN audio_filename(card, args.audio_speed) ELSE None IN
    <<IF card.code # <<>> THEN card.code ELSE card.id,
      card.simplified, card.traditional, card.pinyin, Gloss(card),
      IF ~IsNone(audio_fn) THEN <<"[sound:">> \o Val(audio_fn) \o <<"]">> ELSE <<>> >>
NotesOf(cs) == [i \in 1..Len(cs) |-> NoteOf(cs[i])]

\* the media files the package takes in: sorted(set(media_files))
MediaOf(cs) ==
    {path_join(media_dir, Val(audio_filename(cs[i], args.audio_speed))) :
        i \in {j \in 1..Len(cs) :
                 /\ args.include_audio
                 /\ ~IsNone(audio_filename(cs[j], args.audio_speed))
                 /\ MediaExists(path_join(media_dir,
                                          Val(audio_filename(cs[j], args.audio_speed))))}}

DecksOf_OneDeck == <<[name |-> deck_name, notes |-> NotesOf(cards)]>>

\* the decks of the package: "Level N" per level, or "Word" and "Sentence"
DecksOf ==
    IF args.using_levels
    THEN [l \in 1..Len(cards_by_level) |->
            [name |-> deck_name \o <<"::Level ", ToString(l)>>,
             notes |-> NotesOf(cards_by_level[l])]]
    ELSE LET IsSentence(c) == word_type_label(c.wordType) = "Sentence"
             IsWord(c) == ~IsSentence(c) IN
         <<[name |-> deck_name \o <<"::Word">>, notes |-> NotesOf(SelectSeq(cards, IsWord))],
           [name |-> deck_name \o <<"::Sentence">>,
            notes |-> NotesOf(SelectSeq(cards, IsSentence))]>>

Package_NoWait ==
    /\ mstage = "download"
    /\ IF WantsDownloads THEN dstage \in {"running", "done"} ELSE dstage = "idle"
    /\ package' = IF args.make_apkg /\ args.genanki
                  THEN Some([path |-> path_join(out_dir, deck_name \o <<".apkg">>),
                             decks |-> DecksOf, media |-> MediaOf(cards)])
                  ELSE package
    /\ mstage' = "exit"
    /\ exit_status' = Some(0)
    /\ UNCHANGED <<scn, fnVars, fetchVars, dlVars, args, cards, cards_by_level,
                   audio_to_download, tsv_files>>

\* The end of main: the package is built and written when --make-apkg is
\* given and genanki can be imported; main returns.
Package ==
    /\ mstage = "download"
    /\ IF WantsDownloads THEN dstage = "done" ELSE dstage = "idle"
    /\ package' = IF args.make_apkg /\ args.genanki
                  THEN Some([path |-> path_join(out_dir, deck_name \o <<".apkg">>),
                             decks |-> DecksOf, media |-> MediaOf(cards)])
                  ELSE package
    /\ mstage' = "exit"
    /\ exit_status' = Some(0)
    /\ UNCHANGED <<scn, fnVars, fetchVars, dlVars, args, cards, cards_by_level,
                   audio_to_download, tsv_files>>

(* A whole run of the program: any of the command lines, a server that       *)
(* serves up to MaxRecords records in pages of its choosing or fails.        *)
InitMain ==
    /\ scn = "main"
    /\ FnIdle
    /\ args \in MainArgs
    /\ max_cards \in {None, Some(-1), Some(1)}
    /\ fstate = "running"
    /\ flevel = IF args.using_levels THEN 1 ELSE 0
    /\ page = 1
    /\ f_cards = <<>>
    /\ total = None
    /\ requested = <<>>
    /\ hist = <<>>
    /\ budget = MaxRecords
    /\ mstage = "fetch"
    /\ exit_status = None
    /\ cards = <<>>
    /\ cards_by_level = <<>>
    /\ audio_to_download = <<>>
    /\ tsv_files = <<>>
    /\ package = None
    /\ DownloadIdle

\* The addresses and destinations of the lists given to the deduplication.
ListPairs ==
    {<<u, d>> : u \in {CDN_AUDIO_BASE \o <<"a", ".mp3">>, CDN_AUDIO_BASE \o <<"b", ".mp3">>},
                d \in {path_join(media_dir, <<"a", ".mp3">>),
                       path_join(media_dir, <<"b", ".mp3">>)}}
Lists == UNION {[1..n -> ListPairs] : n \in 1..MaxListLen}

(* The stage after rendering, given any registered list.                     *)
InitLists ==
    /\ scn = "lists"
    /\ FnIdle
    /\ args = [NoArgs EXCEPT !.include_audio = TRUE]
    /\ max_cards = None
    /\ fstate = "idle"
    /\ flevel = 0
    /\ page = 1
    /\ f_cards = <<>>
    /\ total = None
    /\ requested = <<>>
    /\ hist = <<>>
    /\ budget = 0
    /\ mstage = "download"
    /\ exit_status = None
    /\ cards = <<>>
    /\ cards_by_level = <<>>
    /\ audio_to_download \in Lists
    /\ tsv_files = <<>>
    /\ package = None
    /\ DownloadIdle

NextMain ==
    \/ FetchPageOk
    \/ FetchPageFail
    \/ MainFetchReturned
    \/ MainFetchFailed
    \/ Render
    \/ StartDownloads
    \/ TakeTask
    \/ WorkerStep
    \/ Collect
    \/ PoolExit
    \/ Package

SpecMain == (InitMain \/ InitLists) /\ [][NextMain]_vars

(* The runs that end in a package: the cards are fetched, audio and the       *)
(* package are asked for, and the media directory and the CDN are in any      *)
(* state.                                                                     *)
PackArgs ==
    {a \in MainArgs : a.make_apkg /\ a.include_audio /\ ~a.split_by_wordtype
                        /\ a.format = "simple" /\ a.audio_speed = "normal"}
PackCards ==
    UNION {{[i \in 1..n |-> from_api(RawRecord(ks[i], 1, 1, i))] : ks \in [1..n -> 1..4]} :
              n \in 1..MaxRecords}

InitPack ==
    /\ scn = "pack"
    /\ FnIdle
    /\ args \in PackArgs
    /\ cards \in PackCards
    /\ cards_by_level = IF args.using_levels THEN <<cards, <<>> >> ELSE <<>>
    /\ mstage = "render"
    /\ exit_status = None
    /\ audio_to_download = <<>>
    /\ tsv_files = <<>>
    /\ package = None
    /\ FetchOff
    /\ DownloadIdle

NextPack ==
    \/ Render
    \/ StartDownloads
    \/ TakeTask
    \/ WorkerStep
    \/ Collect
    \/ PoolExit
    \/ Package
SpecPack == InitPack /\ [][NextPack]_vars

-----------------------------------------------------------------------------
(* Flashcard.from_api called on one raw record                              *)

\* A key of a raw record is missing (<<>>), there with null (<<None>>) or
\* there with a value (<<Some(v)>>).
Missing == <<>>
Null == <<None>>
Given(v) == <<Some(v)>>
Field(key, o) == IF o = Missing THEN EmptyDict ELSE (key :> o[1])

TextOpts == {Missing, Null, Given(<<" ", "x", "\n">>)}
PinyinOpts == TextOpts \cup {Given(<<"\t">>)}
English2Opts == {Missing, Given(<<"y", " ">>)}
CodeOpts == {Missing, Null, Given(<<"a">>)}
IdOpts == {Missing, Null, Given(<<>>), Given(<<"7">>)}
UnderIdOpts == {Missing, Null, Given(<<"8">>)}
IntOpts == {Missing, Null, Given(0), Given(2)}

\* the objects under the key content
RawContents ==
    {Field("simplified", s) @@ Field("traditional", t) @@ Field("pinyin", p)
        @@ Field("english1", e1) @@ Field("english2", e2)
        @@ Field("normal", n) @@ Field("slow", IF n = Missing THEN Given(<<"b">>) ELSE Missing) :
        s \in TextOpts, t \in {Missing, Given(<<"x">>)}, p \in PinyinOpts,
        e1 \in TextOpts, e2 \in English2Opts, n \in CodeOpts}
ContentOpts == {Missing, Null} \cup {Given(c) : c \in RawContents}

\* the raw records given to the mapper
RawObjects ==
    {Field("id", i) @@ Field("_id", u) @@ Field("code", c)
        @@ Field("masteryLevel", m) @@ Field("wordType", w) @@ Field("content", k) :
        i \in IdOpts, u \in UnderIdOpts, c \in {Missing, Given(<<"c">>)},
        m \in IntOpts, w \in {Missing, Given(0)}, k \in ContentOpts}

InitMapper ==
    /\ scn = "mapper"
    /\ fn_in \in {<<obj>> : obj \in RawObjects}
    /\ fn_out = <<>>
    /\ MainOff
    /\ FetchOff
    /\ DownloadIdle

\* Flashcard.from_api(obj): the card, or the AttributeError of c.get
CallFromApi ==
    /\ scn = "mapper"
    /\ fn_out = <<>>
    /\ fn_out' = IF from_api_raises(fn_in[1]) THEN <<"raised", "AttributeError">>
                 ELSE <<"returned", from_api(fn_in[1])>>
    /\ UNCHANGED <<scn, fn_in, fetchVars, dlVars, mainVars>>

NextMapper == CallFromApi
SpecMapper == InitMapper /\ [][NextMapper]_vars

-----------------------------------------------------------------------------
(* audio_filename, to_simple_fields and to_rich_fields called on one card   *)

Speeds == {"normal", "slow"}
AudioCodes == {None, Some(<<>>), Some(<<"a">>), Some(<<"b">>)}

\* the cards given to the row functions
RowCards ==
    [id : {<<"7">>}, code : {<<>>, <<"c">>}, masteryLevel : {None},
     wordType : {None, Some(0), Some(2), Some(3), Some(5)},
     simplified : {<<>>, <<"s">>}, traditional : {<<"t">>},
     pinyin : {<<>>, <<"ni", " ", "hao">>},
     english1 : {<<>>, <<"hello">>}, english2 : {<<>>, <<"e2">>},
     audio_code_normal : AudioCodes, audio_code_slow : {None, Some(<<"a">>), Some(<<"c">>)}]

InitRows ==
    /\ scn = "rows"
    /\ fn_in \in {<<card, include_audio, speed>> :
                    card \in RowCards, include_audio \in BOOLEAN, speed \in Speeds}
    /\ fn_out = <<>>
    /\ MainOff
    /\ FetchOff
    /\ DownloadIdle

\* card.audio_filename(speed)
CallAudioFilename ==
    /\ scn = "rows"
    /\ fn_out = <<>>
    /\ fn_out' = <<"audio_filename", audio_filename(fn_in[1], fn_in[3])>>
    /\ UNCHANGED <<scn, fn_in, fetchVars, dlVars, mainVars>>

\* to_simple_fields(card, include_audio, speed)
CallToSimpleFields ==
    /\ scn = "rows"
    /\ fn_out = <<>>
    /\ fn_out' = <<"to_simple_fields", to_simple_fields(fn_in[1], fn_in[2], fn_in[3])>>
    /\ UNCHANGED <<scn, fn_in, fetchVars, dlVars, mainVars>>

\* to_rich_fields(card, include_audio, speed)
CallToRichFields ==
    /\ scn = "rows"
    /\ fn_out = <<>>
    /\ fn_out' = <<"to_rich_fields", to_rich_fields(fn_in[1], fn_in[2], fn_in[3])>>
    /\ UNCHANGED <<scn, fn_in, fetchVars, dlVars, mainVars>>

NextRows == CallAudioFilename \/ CallToSimpleFields \/ CallToRichFields
SpecRows == InitRows /\ [][NextRows]_vars

-----------------------------------------------------------------------------
(* write_tsv_simple and write_tsv_rich called on one list of rows           *)

MaxRows == 2
MaxFieldLen == 2

Alphabet == {"\t", "\n", "x"}
FieldStrings == UNION {[1..n -> Alphabet] : n \in 0..MaxFieldLen}
SimpleRows == {<<front, back>> : front \in FieldStrings, back \in FieldStrings}
RichRows ==
    {<<a, <<"x">>, <<>>, b, <<>>, <<"x">>, c>> :
        a \in FieldStrings, b \in {<<>>, <<"\t">>}, c \in {<<>>, <<"\n">>, <<"x">>}}
RowLists(rows) == UNION {[1..n -> rows] : n \in 0..MaxRows}

InitTsv ==
    /\ scn = "tsv"
    /\ fn_in \in {<<"simple", rows>> : rows \in RowLists(SimpleRows)}
                \cup {<<"rich", rows>> : rows \in RowLists(RichRows)}
    /\ fn_out = <<>>
    /\ MainOff
    /\ FetchOff
    /\ DownloadIdle

\* write_tsv_simple(output_file, rows): the content of the file
CallWriteTsvSimple ==
    /\ scn = "tsv"
    /\ fn_in[1] = "simple"
    /\ fn_out = <<>>
    /\ fn_out' = <<write_tsv_simple(fn_in[2])>>
    /\ UNCHANGED <<scn, fn_in, fetchVars, dlVars, mainVars>>

\* write_tsv_rich(output_file, rows): the content of the file
CallWriteTsvRich ==
    /\ scn = "tsv"
    /\ fn_in[1] = "rich"
    /\ fn_out = <<>>
    /\ fn_out' = <<write_tsv_rich(fn_in[2])>>
    /\ UNCHANGED <<scn, fn_in, fetchVars, dlVars, mainVars>>

NextTsv == CallWriteTsvSimple \/ CallWriteTsvRich
SpecTsv == InitTsv /\ [][NextTsv]_vars

-----------------------------------------------------------------------------
(* The attempts of one call of http_download                                *)

MaxRetries == 5
\* the default of backoff, 0.75 s, in hundredths of a second
DefaultBackoff == 75

RECURSIVE Pow2(_)
Pow2(n) == IF n = 0 THEN 1 ELSE 2 * Pow2(n - 1)

sleep_s_Flat(backoff, attempt) == backoff + Min(25, 5 * attempt)

\* sleep_s = backoff * (2 ** (attempt - 1)) + min(0.25, 0.05 * attempt), in
\* hundredths of a second
sleep_s(backoff, attempt) == backoff * Pow2(attempt - 1) + Min(25, 5 * attempt)

\* for attempt in range(1, max(1, retries) + 1)
Attempts(n) == 1..Max(1, n)

\* the values of retries and backoff a call is given, and what an attempt
\* may raise
RetryValues == (-1)..MaxRetries
Backoffs == {10, DefaultBackoff, 100}
Errors == {"timed out", "EOF"}

InitRetry ==
    /\ scn = "retry"
    /\ fn_in \in {<<n, backoff>> : n \in RetryValues, backoff \in Backoffs}
    /\ fn_out = <<>>
    /\ MainOff
    /\ FetchOff
    /\ DownloadIdle

\* http_download is called: last_err = None and the loop begins
CallHttpDownload ==
    /\ scn = "retry"
    /\ fn_out = <<>>
    /\ fn_out' = <<[status |-> "trying", attempt |-> 1, errs |-> <<>>, sleeps |-> <<>>,
                    last_err |-> None, raised |-> None]>>
    /\ UNCHANGED <<scn, fn_in, fetchVars, dlVars, mainVars>>

\* the attempt goes through: os.replace and return
AttemptSucceeds ==
    /\ scn = "retry"
    /\ fn_out # <<>>
    /\ fn_out[1].status = "trying"
    /\ fn_out' = <<[fn_out[1] EXCEPT !.status = "returned"]>>
    /\ UNCHANGED <<scn, fn_in, fetchVars, dlVars, mainVars>>

\* the attempt raises e: last_err = e, then break and raise RuntimeError
\* when attempt >= retries or the range is used up, else sleep and go on
AttemptFails ==
    /\ scn = "retry"
    /\ fn_out # <<>>
    /\ fn_out[1].status = "trying"
    /\ \E e \in Errors :
          LET st == fn_out[1]
              k == st.attempt IN
          fn_out' =
              IF k >= fn_in[1] \/ (k + 1) \notin Attempts(fn_in[1])
              THEN <<[st EXCEPT !.status = "raised", !.errs = Append(@, e),
                                !.last_err = Some(e), !.raised = Some(e)]>>
              ELSE <<[st EXCEPT !.attempt = k + 1, !.errs = Append(@, e),
                                !.last_err = Some(e),
                                !.sleeps = Append(@, sleep_s(fn_in[2], k))]>>
    /\ UNCHANGED <<scn, fn_in, fetchVars, dlVars, mainVars>>

NextRetry == CallHttpDownload \/ AttemptSucceeds \/ AttemptFails
SpecRetry == InitRetry /\ [][NextRetry]_vars

-----------------------------------------------------------------------------
(* Properties of the fetcher, read off the history of answered requests *)

RECURSIVE ReceivedUpTo(_)
\* the mapped records of the first i answered pages, in request order
ReceivedUpTo(i) ==
    IF i = 0 THEN <<>>
    ELSE ReceivedUpTo(i - 1) \o
         [j \in 1..Len(hist[i].recs) |-> from_api(hist[i].recs[j])]

RECURSIVE ReportedUpTo(_)
\* the first total reported within the first i answers
ReportedUpTo(i) ==
    IF i = 0 THEN None
    ELSE IF ~IsNone(ReportedUpTo(i - 1)) THEN ReportedUpTo(i - 1) ELSE hist[i].t

CapHeld(i) == ~IsNone(max_cards) /\ Len(ReceivedUpTo(i)) >= Val(max_cards)
EmptyHeld(i) == Len(hist[i].recs) = 0
TotalHeld(i) ==
    ~IsNone(ReportedUpTo(i)) /\ Len(ReceivedUpTo(i)) >= Val(ReportedUpTo(i))
StopHeld(i) == CapHeld(i) \/ EmptyHeld(i) \/ TotalHeld(i)

\* C1: the fetcher requests pages 1, 2, 3, ... consecutively; no stop test
\* held after any page but the last answered one; the call has returned
\* exactly when a stop test held after the last answered page, and otherwise
\* goes on to the next page; without a cap hit the result is everything
\* received. A first page of 50 records and an empty second page, with no
\* total and no cap, give 50 cards after 2 requests.
C1_StopsAtFirstStopPage ==
    scn = "fetch" =>
    /\ \A i \in 1..Len(requested) : requested[i] = i
    /\ Len(hist) = (IF fstate = "raised" THEN Len(requested) - 1 ELSE Len(requested))
    /\ \A i \in 1..(Len(hist) - 1) : ~StopHeld(i)
    /\ (Len(hist) > 0 /\ fstate # "raised") =>
          /\ (fstate = "returned") = StopHeld(Len(hist))
          /\ (fstate = "running") => page = Len(hist) + 1
          /\ (fstate = "returned" /\ ~CapHeld(Len(hist))) =>
                f_cards = ReceivedUpTo(Len(hist))
    /\ (Len(hist) = 0 /\ fstate # "raised") => (fstate = "running" /\ page = 1)
    /\ (/\ IsNone(max_cards)
        /\ Len(hist) >= 1
        /\ Len(hist[1].recs) = PerPageDefault /\ IsNone(hist[1].t)) =>
          /\ (Len(hist) = 1 /\ fstate # "raised") => (fstate = "running" /\ page = 2)
          /\ (Len(hist) = 2 /\ Len(hist[2].recs) = 0 /\ IsNone(hist[2].t)) =>
                /\ fstate = "returned"
                /\ Len(f_cards) = PerPageDefault
                /\ requested = <<1, 2>>

\* the 50-then-0 scenario has run to its end
C1_Witness ==
    /\ scn = "fetch" /\ fstate = "returned" /\ IsNone(max_cards)
    /\ Len(hist) = 2
    /\ Len(hist[1].recs) = PerPageDefault /\ IsNone(hist[1].t)
    /\ Len(hist[2].recs) = 0 /\ IsNone(hist[2].t)
    /\ Len(f_cards) = PerPageDefault

\* C2: with a cap supplied, the returned list never holds more cards than the
\* cap, and once the accumulated count reaches the cap the result is the first
\* `cap` cards of the pages received.
C2_CapBoundsResult ==
    (scn = "fetch" /\ fstate = "returned" /\ ~IsNone(max_cards)) =>
    /\ Len(f_cards) <= Val(max_cards)
    /\ CapHeld(Len(hist)) =>
          /\ Len(f_cards) = Val(max_cards)
          /\ \A i \in 1..Len(f_cards) : f_cards[i] = ReceivedUpTo(Len(hist))[i]

\* the same statement for the caps that are counts (checked to hold)
C2_NonNegativeCapBoundsResult ==
    (~IsNone(max_cards) /\ Val(max_cards) >= 0) => C2_CapBoundsResult

-----------------------------------------------------------------------------
(* The download stage: skipping, failing, placing *)

NonEmpty(c) == ~IsNone(c) /\ Len(Val(c)) > 0
Succeeded(status) == status \in {"downloaded", "cached"}
NoRequests == \A t \in Tasks : net_reqs[t] = 0
AllCachedSoFar == \A t \in Tasks : outcome[t] \in {"none", "cached"}

C4_RerunAfterSuccessIsCached ==
    (run = 2 /\ \A t \in Tasks : Succeeded(prev_outcome[t]))
        => (NoRequests /\ AllCachedSoFar)

\* C4 (as amended): a task whose destination is there with non-zero size when
\* its worker checks it makes no network request and ends cached; so a run
\* over the same task list, after a run in which every task ended with a
\* non-empty destination file, makes no network request at all and reports
\* every task as cached.
C4_SkipsPresentFiles ==
    /\ \A t \in Tasks :
        /\ NonEmpty(pre[dest_of(t)]) => (net_reqs[t] = 0 /\ outcome[t] \in {"none", "cached"})
        /\ outcome[t] = "cached" => (net_reqs[t] = 0 /\ NonEmpty(pre[dest_of(t)]))
    /\ (run = 2 /\ \A t \in Tasks : Succeeded(prev_outcome[t]) /\ NonEmpty(pre[dest_of(t)]))
        => (NoRequests /\ AllCachedSoFar)

C4_Witness ==
    /\ run = 2
    /\ dstage = "done"
    /\ \E t \in Tasks : prev_outcome[t] = "downloaded"
    /\ \A t \in Tasks : outcome[t] = "cached" /\ net_reqs[t] = 0

\* C5: a download into an absent destination whose attempts all raise never
\* creates the destination file, at any point of the run, and once it has
\* failed there is no temporary ".part" file next to the destination.
C5_FailedDownloadLeavesNothing ==
    \A t \in Tasks :
        /\ (IsNone(pre[dest_of(t)]) /\ outcome[t] # "downloaded") => ~Exists(dest_of(t))
        /\ outcome[t] = "failed" => ~Exists(tmp_of(t))

C5_Witness ==
    \E t \in Tasks :
        /\ outcome[t] = "failed"
        /\ IsNone(pre[dest_of(t)])
        /\ net_reqs[t] = retries

IsWholeBody(t, data) == \E n \in BodyLens : data = Body(url_of(t), n)

\* C6: with pairwise distinct destinations, a destination path is at every
\* moment either as it was before the run (absent, or with its earlier
\* content) or holds the whole body of an attempt that was read to the end,
\* and no file open for writing is the file at a destination path.
C6_DestinationNeverPartial ==
    \A t \in Tasks :
        /\ \/ Content(dest_of(t)) = pre[dest_of(t)]
           \/ /\ Exists(dest_of(t))
              /\ IsWholeBody(t, Data(dest_of(t)))
              /\ outcome[t] = "downloaded"
        /\ \A u \in Tasks : tk[u].fd # 0 => fs_path[dest_of(t)] # tk[u].fd

C6_Witness ==
    \E t \in Tasks :
        /\ outcome[t] = "downloaded"
        /\ net_reqs[t] >= 2
        /\ Data(dest_of(t)) = Body(url_of(t), 1)
        /\ \E u \in Tasks : tk[u].pc = "read" /\ Exists(tmp_of(u))

\* C7: when two workers run http_download for one destination path, then
\* under every interleaving of their steps the destination is as it was
\* before the run or holds the whole body of a response, no file still being
\* written is the file at the destination, and no attempt of either worker
\* fails (the network answers every request, so only the other worker could
\* make one fail).
C7_SameDestinationSafe ==
    /\ fs_errors = 0
    /\ \A t \in Tasks :
        /\ outcome[t] # "failed"
        /\ \/ Content(dest_of(t)) = pre[dest_of(t)]
           \/ Exists(dest_of(t)) /\ IsWholeBody(t, Data(dest_of(t)))
        /\ \A u \in Tasks : tk[u].fd # 0 => fs_path[dest_of(t)] # tk[u].fd

-----------------------------------------------------------------------------
(* The batch *)

FailedTasks == {t \in Tasks : outcome[t] = "failed"}
DestFiles == {d \in Dests : Exists(d)}
Occurrences(seq, x) == Cardinality({i \in 1..Len(seq) : seq[i] = x})

BatchComplete ==
    /\ \A t \in Tasks : outcome[t] \in {"cached", "downloaded", "failed"}
    /\ \A t \in Tasks : tk[t].pc = "finished"
    /\ failed = Cardinality(FailedTasks)
    /\ ok = Len(unique_pairs) - failed
    /\ Len(warnings) = failed
    /\ \A t \in FailedTasks : Occurrences(warnings, unique_pairs[t][1]) = 1

C8_Safe ==
    /\ \A t \in Tasks :
        /\ outcome[t] \in {"none", "cached", "downloaded", "failed"}
        /\ (outcome[t] # "none") = (tk[t].pc = "finished")
        /\ (net[t] = "down" /\ outcome[t] # "none" /\ ~NonEmpty(pre[dest_of(t)]))
              => outcome[t] = "failed"
    /\ dstage = "done" => BatchComplete
    /\ (scn = "scen" /\ dstage = "done")
          => (ok = 9 /\ failed = 1 /\ Cardinality(DestFiles) = 9)

\* C8: a task that fails does not end the batch: whatever the task list, the
\* worker count and the tasks whose attempts all fail, the stage comes to its
\* end, and then every task has exactly one of the outcomes cached,
\* downloaded and failed and there is one warning per failed task; the run
\* of 10 tasks on 3 workers in which task 4 fails its 4 attempts ends with
\* ok = 9, failed = 1 and 9 destination files.
C8_BatchSurvivesFailures == []C8_Safe /\ <>(dstage = "done")

C8_Witness ==
    /\ scn = "scen"
    /\ dstage = "done"
    /\ outcome[4] = "failed" /\ net_reqs[4] = 4
    /\ ok = 9 /\ failed = 1
    /\ warnings = <<unique_pairs[4][1]>>

-----------------------------------------------------------------------------
(* The run as a whole *)

OtherThanExit3 ==
    \/ FetchPageOk \/ FetchPageFail \/ MainFetchReturned \/ Render \/ StartDownloads
    \/ TakeTask \/ WorkerStep \/ Collect \/ PoolExit \/ Package

\* C3: when the request for a page fails (in any level's fetch), the fetch
\* call hands no card list to main, not even the pages it had accumulated,
\* the one step then possible is the exit with status 3, and at that point
\* no tabular file is written, no audio request was made and no package
\* was produced; and status 3 comes from nothing else.
C3_FetchFailureIsFatal ==
    /\ fstate = "raised" =>
        /\ mstage \in {"fetch", "exit"}
        /\ f_cards = <<>>
        /\ cards = Flatten(cards_by_level) \/ (~args.using_levels /\ cards = <<>>)
        /\ args.using_levels => Len(cards_by_level) = flevel - 1
        /\ tsv_files = <<>> /\ audio_to_download = <<>>
        /\ dstage = "idle" /\ net_reqs = <<>>
        /\ package = None
        /\ mstage = "exit" => exit_status = Some(3)
        /\ mstage = "fetch" => (ENABLED MainFetchFailed /\ ~ENABLED OtherThanExit3)
    /\ exit_status = Some(3) => (fstate = "raised" /\ mstage = "exit")

C3_Witness ==
    /\ exit_status = Some(3)
    /\ args.using_levels /\ flevel = 2
    /\ cards # <<>>
    /\ Len(hist) >= 1 /\ hist[1].recs # <<>>

FirstAt(seq, x) == CHOOSE i \in 1..Len(seq) : seq[i] = x /\ \A j \in 1..(i - 1) : seq[j] # x

\* C9: the dispatched list holds every registered (address, destination)
\* pair, each exactly once, in the order of their first occurrences; pairs
\* that differ only in the destination stay separate tasks; and in a run of
\* the program no two dispatched tasks have the same destination path.
C9_DispatchedListIsDeduplicated ==
    dstage # "idle" =>
        /\ \A i \in 1..Len(audio_to_download) :
              \E j \in 1..Len(unique_pairs) : unique_pairs[j] = audio_to_download[i]
        /\ \A j \in 1..Len(unique_pairs) :
              \E i \in 1..Len(audio_to_download) : audio_to_download[i] = unique_pairs[j]
        /\ \A j, k \in 1..Len(unique_pairs) :
              /\ j # k => unique_pairs[j] # unique_pairs[k]
              /\ j < k => FirstAt(audio_to_download, unique_pairs[j])
                            < FirstAt(audio_to_download, unique_pairs[k])
        /\ Len(unique_pairs) = Cardinality({audio_to_download[i] : i \in 1..Len(audio_to_download)})
        /\ scn = "main" =>
              \A j, k \in 1..Len(unique_pairs) : j # k => unique_pairs[j][2] # unique_pairs[k][2]

C9_Witness ==
    /\ scn = "main"
    /\ dstage = "done"
    /\ Len(audio_to_download) = 2
    /\ Len(unique_pairs) = 1

\* the line a card's row makes in a tabular file
LineOf(card) == WriteTsv(<<RowOf(card)>>)
LineEnds(content) == {e \in 1..Len(content) : content[e] = "\n"}
LineAt(content, e) ==
    LET before == {b \in LineEnds(content) : b < e}
        start == IF before = {} THEN 1
                 ELSE 1 + (CHOOSE b \in before : \A c \in before : c <= b) IN
    SubSeq(content, start, e)
CountLine(content, line) ==
    Cardinality({e \in LineEnds(content) : LineAt(content, e) = line})
RECURSIVE CountInFiles(_, _)
CountInFiles(n, line) ==
    IF n = 0 THEN 0
    ELSE CountLine(tsv_files[n].content, line) + CountInFiles(n - 1, line)
Rendered == mstage \in {"download", "exit"} /\ exit_status # Some(3)

\* C10: in every partition mode, once the tabular files are written the row
\* of every fetched card, whatever its wordType, is a line of exactly one of
\* them.
C10_EveryCardInOneFile ==
    Rendered =>
        \A i \in 1..Len(cards) : CountInFiles(Len(tsv_files), LineOf(cards[i])) = 1

C10_HoldsUnlessSplitByWordType ==
    (Rendered /\ (args.using_levels \/ ~args.split_by_wordtype)) =>
        \A i \in 1..Len(cards) : CountInFiles(Len(tsv_files), LineOf(cards[i])) = 1

C10_SplitKeepsWordsAndSentences ==
    (Rendered /\ ~args.using_levels /\ args.split_by_wordtype) =>
        \A i \in 1..Len(cards) :
            CountInFiles(Len(tsv_files), LineOf(cards[i]))
                = IF word_type_label(cards[i].wordType) = "" THEN 0 ELSE 1

-----------------------------------------------------------------------------
(* Order, from the pages to the rows                                        *)

\* the ends of the lines of content that are the given line
LinePos(content, line) == {e \in LineEnds(content) : LineAt(content, e) = line}

\* the lists main got from one fetch call each
Fetches == IF args.using_levels THEN cards_by_level ELSE <<cards>>

\* in every written file, the rows of two cards of one fetch stand in the
\* order of the cards
RowsInFetchOrder ==
    \A f \in 1..Len(tsv_files), l \in 1..Len(Fetches) :
        \A i, j \in 1..Len(Fetches[l]) :
            i < j =>
                \A a \in LinePos(tsv_files[f].content, LineOf(Fetches[l][i])),
                   b \in LinePos(tsv_files[f].content, LineOf(Fetches[l][j])) : a < b

\* C11 as stated: the list a fetch call returns is the concatenation of the
\* pages in request order, each page in server order, and in every written
\* tabular file the rows are in the relative order of their cards in the
\* fetch that produced them.
C11_ReturnsConcatenationOfPages ==
    /\ fstate = "returned" => f_cards = ReceivedUpTo(Len(hist))
    /\ Rendered => RowsInFetchOrder

\* C11: the list a fetch call returns is a prefix of the concatenation of
\* the pages in request order, each page in server order: the whole of it
\* when no cap is given, its first cap cards when a cap is reached; and in
\* every written tabular file the rows are in the relative order of their
\* cards in the fetch that produced them.
C11_OrderIsPreserved ==
    /\ fstate = "returned" =>
          /\ f_cards = SubSeq(ReceivedUpTo(Len(hist)), 1, Len(f_cards))
          /\ IsNone(max_cards) => f_cards = ReceivedUpTo(Len(hist))
          /\ (~IsNone(max_cards) /\ Len(ReceivedUpTo(Len(hist))) >= Val(max_cards)) =>
                f_cards = SliceTo(ReceivedUpTo(Len(hist)), Val(max_cards))
    /\ Rendered => RowsInFetchOrder

\* two pages were concatenated, and a file holds the rows of two cards
C11_Witness ==
    /\ scn = "main"
    /\ Rendered
    /\ Len(hist) >= 2
    /\ Len(hist[1].recs) = 1
    /\ Len(hist[2].recs) = 1
    /\ Len(cards) = 2
    /\ \E f \in 1..Len(tsv_files) :
          /\ LinePos(tsv_files[f].content, LineOf(cards[1])) # {}
          /\ LinePos(tsv_files[f].content, LineOf(cards[2])) # {}

-----------------------------------------------------------------------------
(* The mapper                                                               *)

TextFields == {"simplified", "traditional", "pinyin", "english1", "english2"}
IntFields == {"masteryLevel", "wordType"}
Called == scn = "mapper" /\ fn_out # <<>>
Returned == Called /\ fn_out[1] = "returned"
Trimmed(s) == s = <<>> \/ (~IsSpace(s[1]) /\ ~IsSpace(s[Len(s)]))

\* C12: for every raw record the mapper maps, each of the five text fields
\* of the card has no leading or trailing whitespace and is empty when the
\* field is missing or null in the record; masteryLevel and wordType are
\* None when missing from the record, and a 0 in the record is kept as 0.
C12_MapperNormalizes ==
    Returned =>
        LET obj == fn_in[1]
            card == fn_out[2]
            c == Val(GetOr(obj, "content", Some(EmptyDict))) IN
        /\ \A f \in TextFields :
              /\ Trimmed(card[f])
              /\ IsNone(Get(c, f)) => card[f] = <<>>
        /\ \A k \in IntFields :
              /\ k \notin DOMAIN obj => IsNone(card[k])
              /\ (k \in DOMAIN obj /\ obj[k] = Some(0)) => card[k] = Some(0)

\* a record with a padded, a missing and a null text field, no masteryLevel
\* and wordType 0 was mapped
C12_Witness ==
    /\ Returned
    /\ "content" \in DOMAIN fn_in[1]
    /\ ~IsNone(fn_in[1].content)
    /\ "simplified" \notin DOMAIN Val(fn_in[1].content)
    /\ Get(Val(fn_in[1].content), "pinyin") = Some(<<" ", "x", "\n">>)
    /\ "english1" \in DOMAIN Val(fn_in[1].content)
    /\ IsNone(Val(fn_in[1].content).english1)
    /\ fn_out[2].pinyin = <<"x">>
    /\ fn_out[2].english1 = <<>>
    /\ "masteryLevel" \notin DOMAIN fn_in[1]
    /\ Get(fn_in[1], "wordType") = Some(0)
    /\ fn_out[2].wordType = Some(0)

\* the id the claim gives a record: id, else _id, else the empty string
IdOf(obj) ==
    IF OrEmpty(Get(obj, "id")) # <<>> THEN Val(obj.id)
    ELSE IF OrEmpty(Get(obj, "_id")) # <<>> THEN Val(obj["_id"])
    ELSE <<>>

\* C13: mapping a raw record never fails: whatever subset of the keys id,
\* _id, code, content and the fields inside content is missing or null,
\* from_api returns a card, whose id is the record's id, else its _id, else
\* the empty string.
C13_MappingNeverFails ==
    Called => (fn_out[1] = "returned" /\ fn_out[2].id = IdOf(fn_in[1]))

\* the same for the records whose content is not null
C13_HoldsUnlessContentIsNull ==
    (Called /\ ~IsNone(GetOr(fn_in[1], "content", Some(EmptyDict)))) =>
        (fn_out[1] = "returned" /\ fn_out[2].id = IdOf(fn_in[1]))

-----------------------------------------------------------------------------
(* The row functions                                                        *)

Did(f) == scn = "rows" /\ fn_out # <<>> /\ fn_out[1] = f
\* the audio code of a card for a speed
CodeFor(card, speed) ==
    IF speed = "normal" THEN card.audio_code_normal ELSE card.audio_code_slow
HasCode(card, speed) == ~IsNone(CodeFor(card, speed)) /\ Val(CodeFor(card, speed)) # <<>>
\* the card with the given audio code for both speeds
WithCode(card, code) ==
    [card EXCEPT !.audio_code_normal = code, !.audio_code_slow = code]
\* the card with the other fields changed
OtherCard(card) ==
    [card EXCEPT !.simplified = <<"o">>, !.code = <<"k">>, !.wordType = Some(2),
                 !.pinyin = <<"p">>]

\* C14: audio_filename(speed) is present exactly when the card's code for
\* the speed is present and not empty, and is then the code followed by
\* ".mp3"; it depends on the code and the speed only, and two distinct codes
\* never give the same file name.
C14_AudioFilename ==
    Did("audio_filename") =>
        LET card == fn_in[1]
            speed == fn_in[3]
            out == fn_out[2] IN
        /\ ~IsNone(out) <=> HasCode(card, speed)
        /\ ~IsNone(out) => Val(out) = Val(CodeFor(card, speed)) \o <<".mp3">>
        /\ audio_filename(OtherCard(card), speed) = out
        /\ \A s2 \in Speeds :
              audio_filename(WithCode(card, CodeFor(card, speed)), s2) = out
        /\ \A code \in AudioCodes :
              (HasCode(card, speed) /\ ~IsNone(code) /\ Val(code) # <<>>
                  /\ code # CodeFor(card, speed)) =>
                  \A s2 \in Speeds : audio_filename(WithCode(card, code), s2) # out

\* the file name of the slow code was asked for, and the normal one differs
C14_Witness ==
    /\ Did("audio_filename")
    /\ fn_in[3] = "slow"
    /\ fn_in[1].audio_code_slow = Some(<<"c">>)
    /\ fn_in[1].audio_code_normal = Some(<<"a">>)
    /\ fn_out[2] = Some(<<"c", ".mp3">>)

\* the gloss of the claims: english1, or english1 | english2
GlossOf(card) ==
    IF card.english2 = <<>> THEN card.english1
    ELSE card.english1 \o <<" ", "|", " ">> \o card.english2
\* audio is requested and the card has a file for the speed
WithAudio(card, include_audio, speed) == include_audio /\ HasCode(card, speed)
FileOf(card, speed) == Val(CodeFor(card, speed)) \o <<".mp3">>

\* C15: to_simple_fields returns front = simplified, with " [sound:<file>]"
\* appended exactly when audio is requested and the card has a file for the
\* speed, and back = pinyin, the dash and the gloss when pinyin is not empty,
\* else the gloss alone. english1 "hello", no english2, pinyin "ni hao" and
\* audio off give front = simplified and back = "ni hao", the dash, "hello".
C15_CompactRow ==
    Did("to_simple_fields") =>
        LET card == fn_in[1]
            include_audio == fn_in[2]
            speed == fn_in[3]
            out == fn_out[2] IN
        /\ out.front = IF WithAudio(card, include_audio, speed)
                       THEN card.simplified \o <<" ", "[sound:">> \o FileOf(card, speed) \o <<"]">>
                       ELSE card.simplified
        /\ out.back = IF card.pinyin # <<>>
                      THEN card.pinyin \o <<" ", EmDash, " ">> \o GlossOf(card)
                      ELSE GlossOf(card)
        /\ (card.english1 = <<"hello">> /\ card.english2 = <<>>
              /\ card.pinyin = <<"ni", " ", "hao">> /\ ~include_audio) =>
              /\ out.front = card.simplified
              /\ out.back = <<"ni", " ", "hao", " ", EmDash, " ", "hello">>

\* the example of the claim, and a card with audio and no pinyin
C15_Witness ==
    /\ Did("to_simple_fields")
    /\ fn_in[1].english1 = <<"hello">>
    /\ fn_in[1].english2 = <<>>
    /\ fn_in[1].pinyin = <<"ni", " ", "hao">>
    /\ ~fn_in[2]
    /\ fn_in[1].audio_code_normal = Some(<<"a">>)
    /\ fn_in[3] = "normal"
    /\ fn_out[2].back = <<"ni", " ", "hao", " ", EmDash, " ", "hello">>

C15_WitnessAudio ==
    /\ Did("to_simple_fields")
    /\ fn_in[1].pinyin = <<>>
    /\ fn_in[1].english2 # <<>>
    /\ fn_in[2]
    /\ fn_out[2].front = <<"s", " ", "[sound:", "a", ".mp3", "]">>

\* the category label of the claims, as a string of the module
LabelOf(card) ==
    IF card.wordType = Some(2) THEN <<"Word">>
    ELSE IF card.wordType = Some(3) THEN <<"Sentence">>
    ELSE <<>>

\* C16: to_rich_fields returns exactly 7 fields, in the order simplified,
\* pinyin, gloss, traditional, audio marker or empty string, code, category
\* label; the marker is "[sound:<file>]" exactly when audio is requested and
\* the card has a file for the speed; the label is Word for wordType 2,
\* Sentence for wordType 3 and empty for every other or absent wordType.
C16_RichRow ==
    Did("to_rich_fields") =>
        LET card == fn_in[1]
            include_audio == fn_in[2]
            speed == fn_in[3]
            fields == fn_out[2].fields IN
        /\ Len(fields) = 7
        /\ fields[1] = card.simplified
        /\ fields[2] = card.pinyin
        /\ fields[3] = GlossOf(card)
        /\ fields[4] = card.traditional
        /\ fields[5] = IF WithAudio(card, include_audio, speed)
                       THEN <<"[sound:">> \o FileOf(card, speed) \o <<"]">>
                       ELSE <<>>
        /\ fields[6] = card.code
        /\ fields[7] = LabelOf(card)

\* a card of wordType 5 with audio was rendered, and its label is empty
C16_Witness ==
    /\ Did("to_rich_fields")
    /\ fn_in[1].wordType = Some(5)
    /\ fn_in[2]
    /\ fn_in[3] = "slow"
    /\ fn_out[2].fields[5] = <<"[sound:", "c", ".mp3", "]">>
    /\ fn_out[2].fields[7] = <<>>

\* C17 as stated: for every card, speed and include-audio flag, the file
\* name to_simple_fields reports and the one to_rich_fields reports both
\* equal card.audio_filename(speed).
C17_BothReportAudioFilename ==
    /\ Did("to_simple_fields") =>
          fn_out[2].audio_fn = audio_filename(fn_in[1], fn_in[3])
    /\ Did("to_rich_fields") =>
          fn_out[2].audio_fn = audio_filename(fn_in[1], fn_in[3])

\* C17: to_simple_fields reports card.audio_filename(speed) whatever the
\* include-audio flag; to_rich_fields reports card.audio_filename(speed)
\* when audio is requested and no file name when it is not.
C17_ReportedFilename ==
    /\ Did("to_simple_fields") =>
          fn_out[2].audio_fn = audio_filename(fn_in[1], fn_in[3])
    /\ Did("to_rich_fields") =>
          fn_out[2].audio_fn = IF fn_in[2] THEN audio_filename(fn_in[1], fn_in[3])
                               ELSE None

\* to_rich_fields reported the file name of a card, audio being requested
C17_Witness ==
    /\ Did("to_rich_fields")
    /\ fn_in[2]
    /\ fn_in[3] = "normal"
    /\ fn_out[2].audio_fn = Some(<<"b", ".mp3">>)

\* to_rich_fields reported no file name for a card that has one
C17_WitnessNotRequested ==
    /\ Did("to_rich_fields")
    /\ ~fn_in[2]
    /\ HasCode(fn_in[1], fn_in[3])
    /\ IsNone(fn_out[2].audio_fn)

-----------------------------------------------------------------------------
(* Reading the tabular files back                                           *)

RECURSIVE Split(_, _)
\* s.split(sep) for a separator of one character
Split(s, sep) ==
    IF \A i \in 1..Len(s) : s[i] # sep THEN <<s>>
    ELSE LET i == CHOOSE k \in 1..Len(s) : s[k] = sep /\ \A m \in 1..(k - 1) : s[m] # sep IN
         <<SubSeq(s, 1, i - 1)>> \o Split(SubSeq(s, i + 1, Len(s)), sep)

\* the lines of a file, each without its end
LinesOf(content) ==
    IF content = <<>> THEN <<>>
    ELSE IF content[Len(content)] = "\n"
         THEN Split(SubSeq(content, 1, Len(content) - 1), "\n")
         ELSE Split(content, "\n")

FieldCount(mode) == IF mode = "simple" THEN 2 ELSE 7
Written == scn = "tsv" /\ fn_out # <<>>
ParsesBack(mode, rows, content) ==
    /\ Len(LinesOf(content)) = Len(rows)
    /\ \A i \in 1..Len(rows) :
          i <= Len(LinesOf(content)) =>
              LET got == Split(LinesOf(content)[i], "\t") IN
              /\ Len(got) = FieldCount(mode)
              /\ \A j \in 1..FieldCount(mode) : got[j] = ReplaceTab(rows[i][j])
HasNewline(rows) ==
    \E i \in 1..Len(rows) : \E j \in 1..Len(rows[i]) :
        \E k \in 1..Len(rows[i][j]) : rows[i][j][k] = "\n"

\* C18: for every list of rows, with tabs and newlines in the fields, the
\* written file has exactly one line per row, and splitting each line on
\* the tab gives exactly 2 fields in compact mode and 7 in rich mode, each
\* the original field with every tab replaced by a space.
C18_FileParsesBack ==
    Written => ParsesBack(fn_in[1], fn_in[2], fn_out[1])

\* the same for the rows without a newline in a field
C18_ParsesBackWithoutNewlines ==
    (Written /\ ~HasNewline(fn_in[2])) => ParsesBack(fn_in[1], fn_in[2], fn_out[1])
C18_WitnessWithoutNewlines ==
    /\ Written
    /\ fn_in[1] = "rich"
    /\ Len(fn_in[2]) = 2
    /\ fn_in[2][1][1] = <<"x", "\t">>
    /\ ~HasNewline(fn_in[2])

-----------------------------------------------------------------------------
(* The package                                                              *)

Packaged == scn = "main" /\ ~IsNone(package)
\* two cards have their notes in one sub-deck of the package
SameDeck(c1, c2) ==
    \E d \in 1..Len(Val(package).decks) :
        LET notes == Val(package).decks[d].notes IN
        /\ \E n \in 1..Len(notes) : notes[n] = NoteOf(c1)
        /\ \E n \in 1..Len(notes) : notes[n] = NoteOf(c2)
\* two cards have their rows in one tabular file
SameBucket(c1, c2) ==
    \E f \in 1..Len(tsv_files) :
        /\ LinePos(tsv_files[f].content, LineOf(c1)) # {}
        /\ LinePos(tsv_files[f].content, LineOf(c2)) # {}
IsSentenceCard(c) == c.wordType = Some(3)
IsWordOrSentence(c) == c.wordType \in {Some(2), Some(3)}

\* C19 as stated: when a package is produced, two cards are in the same
\* sub-deck if and only if their rows are in the same tabular bucket, in
\* every partition mode.
C19_GroupingMirrorsPartition ==
    Packaged =>
        \A i, j \in 1..Len(cards) :
            SameDeck(cards[i], cards[j]) <=> SameBucket(cards[i], cards[j])

\* C19: when a package is produced in level mode, two cards are in the same
\* sub-deck (Level n) if and only if their rows are in the same level file;
\* outside level mode the package has the sub-decks Word and Sentence
\* whether or not the tabular files are split by word type: two cards are in
\* the same sub-deck if and only if both or neither have wordType 3, which
\* agrees with the tabular buckets for the cards of wordType 2 and 3 when
\* the files are split by word type.
C19_GroupingByLevelOrWordType ==
    Packaged =>
        \A i, j \in 1..Len(cards) :
            IF args.using_levels
            THEN SameDeck(cards[i], cards[j]) <=> SameBucket(cards[i], cards[j])
            ELSE /\ SameDeck(cards[i], cards[j])
                        <=> (IsSentenceCard(cards[i]) <=> IsSentenceCard(cards[j]))
                 /\ (args.split_by_wordtype /\ IsWordOrSentence(cards[i])
                        /\ IsWordOrSentence(cards[j])) =>
                        (SameDeck(cards[i], cards[j]) <=> SameBucket(cards[i], cards[j]))

\* an unsplit run packaged a word and a sentence: one file, two sub-decks
C19_Witness ==
    /\ Packaged
    /\ ~args.using_levels
    /\ ~args.split_by_wordtype
    /\ Len(cards) = 2
    /\ cards[1].wordType = Some(2)
    /\ cards[2].wordType = Some(3)
    /\ SameBucket(cards[1], cards[2])
    /\ ~SameDeck(cards[1], cards[2])

\* a run in level mode packaged one card of each of two levels
C19_WitnessLevels ==
    /\ Packaged
    /\ args.using_levels
    /\ Len(cards_by_level) = 2
    /\ Len(cards_by_level[1]) = 1
    /\ Len(cards_by_level[2]) = 1
    /\ ~SameDeck(cards[1], cards[2])
    /\ ~SameBucket(cards[1], cards[2])

-----------------------------------------------------------------------------
(* The media of the package                                                 *)

PackagedWithAudio == scn = "pack" /\ ~IsNone(package)
\* the destination of task t is one of the media files of the package
Embedded(t) == unique_pairs[t][2] \in Val(package).media

\* C20: the media files embedded in the package are exactly the audio files
\* downloaded with success: a destination is embedded if and only if its
\* task ended this run downloaded or cached, and a task that ended failed
\* embeds nothing, whatever was at its destination before the run.
C20_EmbedsExactlySuccessfulDownloads ==
    PackagedWithAudio =>
        \A t \in Tasks : Embedded(t) <=> Succeeded(outcome[t])

\* what is embedded is what exists: the destinations of the tasks that ended
\* downloaded or cached, and those of the failed tasks where a file was
\* before the run
C20_EmbedsExistingDestinations ==
    PackagedWithAudio =>
        \A t \in Tasks :
            Embedded(t) <=> (Succeeded(outcome[t]) \/ ~IsNone(pre[dest_of(t)]))

\* a failed task whose destination held an empty file before the run
C20_WitnessEmptyFileEmbedded ==
    /\ PackagedWithAudio
    /\ \E t \in Tasks :
          /\ outcome[t] = "failed"
          /\ pre[dest_of(t)] = Some(<<>>)
          /\ Embedded(t)

-----------------------------------------------------------------------------
(* The order of the stages                                                  *)

\* the place of a stage in the pipeline
StageNo ==
    CASE mstage = "idle" -> 0
      [] mstage = "fetch" -> 1
      [] mstage = "render" -> 2
      [] mstage = "download" -> 3
      [] mstage = "exit" -> 4
\* a page request is issued in the step
PageRequested == requested' # requested /\ requested' # <<>>
\* an audio request is issued in the step
AudioRequested ==
    \E t \in Tasks : t \in DOMAIN net_reqs' /\ net_reqs'[t] > net_reqs[t]
\* the tabular files are all written
TsvWritten == mstage \in {"download", "exit"}
\* the tasks with a request under way
Requesting == {t \in Tasks : tk[t].pc \in {"open", "read"}}
PipelineStep ==
    /\ StageNo' >= StageNo
    /\ PageRequested => (mstage = "fetch" /\ tsv_files = <<>>)
    /\ TsvWritten => tsv_files' = tsv_files
    /\ AudioRequested => (mstage = "download" /\ TsvWritten /\ fstate # "running")
    /\ package' # package =>
          /\ mstage = "download"
          /\ \A t \in Tasks : tk[t].pc = "finished"
          /\ Requesting = {}
RequestsOnlyInDownloadStage ==
    /\ Requesting # {} => (mstage = "download" /\ fstate # "running")
    /\ fstate = "running" => mstage = "fetch"

\* C21: the stages of a run occur in the order fetch, rendering and tabular
\* write, audio download, packaging, and no step returns to an earlier one;
\* no page is requested once a tabular file is written, no audio file is
\* requested before the tabular files are written, the package is built
\* only when every download task has finished, and requests are under way
\* together only inside the download stage.
C21_StraightLinePipeline ==
    [](scn \in {"main", "lists"} => RequestsOnlyInDownloadStage) /\ [][PipelineStep]_vars

\* two audio requests are under way together, after a fetch of two pages
\* and the writing of the tabular files
C21_Witness ==
    /\ scn = "main"
    /\ mstage = "download"
    /\ Len(hist) = 2
    /\ tsv_files # <<>>
    /\ Cardinality(Requesting) = 2

-----------------------------------------------------------------------------
(* One tabular file per bucket                                              *)

\* the buckets of a run: their keys, rows and file names
BucketKeys ==
    IF args.using_levels THEN {<<"level", l>> : l \in 1..Len(cards_by_level)}
    ELSE IF args.split_by_wordtype THEN {<<"type", 1>>, <<"type", 2>>, <<"all", 0>>}
    ELSE {<<"all", 0>>}
BucketRows(key) ==
    IF key[1] = "level" THEN RowsOf(cards_by_level[key[2]])
    ELSE IF key[1] = "type"
         THEN RowsOf(CardsOfType(cards, IF key[2] = 1 THEN "Word" ELSE "Sentence"))
         ELSE RowsOf(CardsForAll(cards))
BucketFile(key) ==
    IF key[1] = "level" THEN LevelTsv(key[2])
    ELSE IF key[1] = "type" THEN TypeTsv(IF key[2] = 1 THEN "Word" ELSE "Sentence")
    ELSE AllTsv
FileWritten(path) == \E f \in 1..Len(tsv_files) : tsv_files[f].path = path
RenderedRun == scn = "main" /\ Rendered

\* C22: in each partition mode and both formats, a tabular file is written
\* for a bucket if and only if the bucket holds at least one row, and
\* distinct buckets are written to distinct file names.
C22_OneFilePerNonEmptyBucket ==
    RenderedRun =>
        /\ \A k \in BucketKeys : FileWritten(BucketFile(k)) <=> BucketRows(k) # <<>>
        /\ \A k1, k2 \in BucketKeys : k1 # k2 => BucketFile(k1) # BucketFile(k2)

\* the same for the level buckets and the Word and Sentence buckets; the
\* file of an unsplit run is written whatever its bucket holds
C22_LevelAndTypeBuckets ==
    RenderedRun =>
        /\ \A k \in BucketKeys :
              k[1] # "all" => (FileWritten(BucketFile(k)) <=> BucketRows(k) # <<>>)
        /\ (~args.using_levels /\ ~args.split_by_wordtype) => FileWritten(AllTsv)
        /\ \A k1, k2 \in BucketKeys : k1 # k2 => BucketFile(k1) # BucketFile(k2)

\* a split run left the rows of the other cards in no file
C22_WitnessRowsWithoutFile ==
    /\ RenderedRun
    /\ ~args.using_levels
    /\ args.split_by_wordtype
    /\ BucketRows(<<"all", 0>>) # <<>>
    /\ ~FileWritten(AllTsv)

\* an unsplit run without cards wrote its file
C22_WitnessEmptyFile ==
    /\ RenderedRun
    /\ ~args.using_levels
    /\ ~args.split_by_wordtype
    /\ cards = <<>>
    /\ FileWritten(AllTsv)

-----------------------------------------------------------------------------
(* The retry budget                                                         *)

Download == fn_out[1]
InDownload == scn = "retry" /\ fn_out # <<>>
\* the attempts made so far: the failed ones, and the one that is under way
\* or went through
AttemptsMade ==
    IF Download.status = "raised" THEN Len(Download.errs) ELSE Len(Download.errs) + 1

\* C23: when every attempt fails http_download makes exactly max(1, retries)
\* attempts (4 by default) and then fails with the last error; it sleeps
\* between two attempts only, never after the last; the sleep after the
\* failed attempt k is backoff * 2^(k-1) + min(0.25, 0.05 k) seconds (0.80,
\* 1.60 and 3.15 with the defaults), so the sleeps strictly increase; and an
\* attempt that goes through ends the download with no further attempt.
C23_RetryBudget ==
    InDownload =>
        /\ Download.status = "raised" =>
              /\ AttemptsMade = Max(1, fn_in[1])
              /\ fn_in[1] = DefaultRetries => AttemptsMade = 4
              /\ Download.raised = Some(Download.errs[Len(Download.errs)])
        /\ Len(Download.sleeps) = AttemptsMade - 1
        /\ \A k \in 1..Len(Download.sleeps) :
              /\ Download.sleeps[k] = fn_in[2] * Pow2(k - 1) + (IF 5 * k < 25 THEN 5 * k ELSE 25)
              /\ k > 1 => Download.sleeps[k - 1] < Download.sleeps[k]
        /\ (fn_in[2] = DefaultBackoff /\ Len(Download.sleeps) = 3) =>
              Download.sleeps = <<80, 160, 315>>
        /\ Download.status = "returned" =>
              /\ AttemptsMade = Download.attempt
              /\ ~ENABLED NextRetry
        /\ Download.status = "raised" => ~ENABLED NextRetry

\* the default call failed at its fourth attempt, the last error being
\* another one than the first
C23_Witness ==
    /\ InDownload
    /\ fn_in = <<DefaultRetries, DefaultBackoff>>
    /\ Download.status = "raised"
    /\ Len(Download.errs) = 4
    /\ Download.errs[1] = "timed out"
    /\ Download.raised = Some("EOF")
    /\ Download.sleeps = <<80, 160, 315>>

\* a call went through at its third attempt
C23_WitnessSuccess ==
    /\ InDownload
    /\ fn_in[1] = MaxRetries
    /\ Download.status = "returned"
    /\ Download.attempt = 3
    /\ Len(Download.sleeps) = 2

-----------------------------------------------------------------------------
(* The counters of the download stage                                       *)

\* the tasks that ended with the given status
EndedAs(status) == Cardinality({t \in Tasks : outcome[t] = status})
\* the results not yet handed to main
Uncounted == pending.downloaded + pending.cached + Cardinality(pending.failed)
CountersConsistent ==
    /\ processed = ok + failed
    /\ cached <= ok
    /\ ok <= processed
    /\ processed <= Len(unique_pairs)
    /\ processed + Uncounted = Cardinality({t \in Tasks : outcome[t] # "none"})
CountersFinal ==
    /\ processed = Len(unique_pairs)
    /\ ok + failed = Len(unique_pairs)
    /\ ok = EndedAs("downloaded") + EndedAs("cached")
    /\ cached = EndedAs("cached")
    /\ failed = EndedAs("failed")

\* C24: the counters are updated once per completed task, in whatever order
\* the tasks complete; in every state processed = ok + failed and
\* cached <= ok <= processed <= total; when the stage ends processed =
\* total, so ok + failed is the number of deduplicated tasks, a cached task
\* being counted in ok and in cached.
C24_CountersConsistent ==
    scn = "dl" =>
        /\ dstage \in {"running", "done"} => CountersConsistent
        /\ dstage = "done" => CountersFinal

\* the second task was counted before the first, then the stage ended with
\* a cached and a failed task
C24_Witness ==
    /\ scn = "dl"
    /\ dstage = "done"
    /\ Len(unique_pairs) = 2
    /\ outcome[1] = "failed"
    /\ outcome[2] = "cached"
    /\ warnings # <<>>
    /\ ok = 1 /\ cached = 1 /\ failed = 1 /\ processed = 2

\* the result of the second task is counted while the first is not
C24_WitnessOutOfOrder ==
    /\ scn = "dl"
    /\ dstage = "running"
    /\ Len(unique_pairs) = 2
    /\ processed = 1
    /\ outcome[2] # "none"
    /\ outcome[1] = "none"

-----------------------------------------------------------------------------
(* Termination of the page loop                                             *)

Fetching == scn = "fetch" /\ fstate = "running"
Stopped == scn = "fetch" /\ fstate # "running"
NonNegativeCap == ~IsNone(max_cards) /\ Val(max_cards) >= 0
EveryPageNonEmpty == \A i \in 1..Len(hist) : hist[i].recs # <<>>
NoTotalReported == \A i \in 1..Len(hist) : IsNone(hist[i].t)
EveryRequestReturned == Len(requested) = Len(hist)

\* the loop goes on as long as it has no cap, no total and no empty page
NeverStopsWithoutReason ==
    (scn = "fetch" /\ IsNone(max_cards) /\ NoTotalReported /\ EveryPageNonEmpty
        /\ EveryRequestReturned) => fstate = "running"
\* an empty page ends the loop
EmptyPageStops ==
    (scn = "fetch" /\ ~EveryPageNonEmpty) => fstate # "running"

\* C25: every request returning, fetch_all_flashcards stops in the end
\* whenever a non-negative cap is set, or the server has reported a total,
\* or the server returns an empty page; with no cap, no reported total and a
\* non-empty page for every page number it never stops.
C25_PageLoopTermination ==
    /\ (Fetching /\ NonNegativeCap) ~> Stopped
    /\ (Fetching /\ ~IsNone(total)) ~> Stopped
    /\ []EmptyPageStops
    /\ []NeverStopsWithoutReason

\* without a cap the loop stopped at the third page on the reported total
C25_Witness ==
    /\ scn = "fetch"
    /\ fstate = "returned"
    /\ IsNone(max_cards)
    /\ total = Some(3)
    /\ Len(hist) = 3
    /\ EveryPageNonEmpty

\* the loop is still running after MaxPages non-empty pages
C25_WitnessNeverStops ==
    /\ Fetching
    /\ IsNone(max_cards)
    /\ IsNone(total)
    /\ Len(hist) = MaxPages
    /\ EveryPageNonEmpty

-----------------------------------------------------------------------------
(* The cap in level mode                                                    *)

LevelsFetched == scn = "main" /\ args.using_levels /\ Rendered /\ ~IsNone(max_cards)
CapPerLevel ==
    /\ \A l \in 1..Len(cards_by_level) : Len(cards_by_level[l]) <= Val(max_cards)
    /\ Len(cards) <= Val(max_cards) * Len(cards_by_level)

\* C26: in level mode the cap is applied to the fetch of each level on its
\* own: every level bucket holds at most cap cards and the run at most
\* cap times the number of levels (the run may hold more than cap cards).
C26_CapAppliesPerLevel ==
    LevelsFetched => CapPerLevel

\* the same for the caps that are counts
C26_NonNegativeCapPerLevel ==
    (LevelsFetched /\ Val(max_cards) >= 0) => CapPerLevel

\* a run with cap 1 over two levels exported two cards
C26_WitnessMoreThanCap ==
    /\ LevelsFetched
    /\ max_cards = Some(1)
    /\ Len(cards_by_level) = 2
    /\ Len(cards) = 2

\* a level fetched with --max -1 holds a card
C26_WitnessNegativeCap ==
    /\ LevelsFetched
    /\ max_cards = Some(-1)
    /\ Len(cards_by_level[1]) = 1

====
